---- MODULE Spec2Model ----
(***************************************************************************)
(* A model of gostore: the fluent query Builder, the Filter normalizer,    *)
(* the context-scoped Executor and the store client they delegate to.      *)
(*                                                                         *)
(* Strings that the code or the store inspects character by character      *)
(* (field names, operators, native filter strings, cursor tokens, map      *)
(* keys) are sequences of one-character strings; kinds, key names and      *)
(* error messages are plain strings.  A Go pointer or interface that may   *)
(* be nil is a sequence of length 0 (nil) or 1.                            *)
(***************************************************************************)
EXTENDS Integers, Sequences, FiniteSets, TLC

VARIABLES
    b,       \* the Builder under construction / being executed
    hist,    \* ghost: the arguments the caller passed to the builder, in call order
    store,   \* the store's entities: a function from keys to entities
    ret,     \* the last operation: its name, arguments and what it returned
    calls,   \* the store calls issued by the last operation, in order
    paging,  \* ghost: the items streamed by successive cursor pages
    bulk,    \* the position of a running BulkCreate / BulkDelete loop
    nops     \* number of operations started in this behaviour

vars == <<b, hist, store, ret, calls, paging, bulk, nops>>

----------------------------------------------------------------------------
(* Bounds of the model *)

MaxCalls == 4      \* builder calls chained on one builder
MaxEntities == 3   \* entities of the queried kind in the store
MaxOps == 1        \* executor operations per behaviour
MaxBulk == 5       \* entities handed to one BulkCreate
MaxBatch == 3      \* largest batch size tried
MaxLimit == 2      \* largest limit set on an executed builder
MaxValues == 2     \* values handed to one WhereIn
MaxCrud == 3       \* Create, Update and Delete calls in one sequence

----------------------------------------------------------------------------
(* Text *)

Min(x, y) == IF x < y THEN x ELSE y
Max(x, y) == IF x > y THEN x ELSE y

Take(s, n) == SubSeq(s, 1, Min(Len(s), Max(n, 0)))
Drop(s, n) == SubSeq(s, Min(Len(s), Max(n, 0)) + 1, Len(s))

\* strings.Index: position of the first occurrence of tok in s, 0 when absent
Index(s, tok) ==
    LET hits == {i \in 1..(Len(s) - Len(tok) + 1) : SubSeq(s, i, i + Len(tok) - 1) = tok}
    IN  IF hits = {} THEN 0 ELSE CHOOSE i \in hits : \A j \in hits : i <= j

Contains(s, tok) == Index(s, tok) # 0

\* strings.Split(s, tok)[0]: the text before the first occurrence of tok
SplitFirst(s, tok) == IF Contains(s, tok) THEN SubSeq(s, 1, Index(s, tok) - 1) ELSE s

RECURSIVE TrimLeft(_, _)
TrimLeft(s, cut) ==
    IF s # <<>> /\ Head(s) \in cut THEN TrimLeft(Tail(s), cut) ELSE s

RECURSIVE TrimRight(_, _)
TrimRight(s, cut) ==
    IF s # <<>> /\ s[Len(s)] \in cut THEN TrimRight(SubSeq(s, 1, Len(s) - 1), cut) ELSE s

Spaces == {" ", "\t", "\n", "\r"}
TrimSpace(s) == TrimRight(TrimLeft(s, Spaces), Spaces)

\* fmt.Sprintf("%s %s", x, y)
Sprintf(x, y) == x \o <<" ">> \o y

Digits == <<"0", "1", "2", "3", "4", "5", "6", "7", "8", "9">>

RECURSIVE Decimal(_)
Decimal(n) == IF n < 10 THEN <<Digits[n + 1]>> ELSE Decimal(n \div 10) \o <<Digits[(n % 10) + 1]>>

DigitValue(c) == CHOOSE d \in 0..9 : Digits[d + 1] = c
IsDigit(c) == \E d \in 0..9 : Digits[d + 1] = c

RECURSIVE ParseDecimal(_, _)
ParseDecimal(s, acc) ==
    IF s = <<>> THEN acc ELSE ParseDecimal(Tail(s), acc * 10 + DigitValue(Head(s)))

----------------------------------------------------------------------------
(* builder/types.go *)

Equal == <<"=">>
LessThan == <<"<">>
LessThanOrEqual == <<"<", "=">>
GreaterThan == <<">">>
GreaterThanOrEqual == <<">", "=">>
NotEqual == <<"!", "=">>

Ascending == "asc"
Descending == "desc"

FilterParam(field, operator, value) == [Field |-> field, Operator |-> operator, Value |-> value]
OrderParam(field, direction) == [Field |-> field, Direction |-> direction]
AncestorParam(kind, id) == [Kind |-> kind, ID |-> id]

\* the zero QueryParams
QueryParams ==
    [Filters |-> <<>>, Orders |-> <<>>, Limit |-> 0, Offset |-> 0, Cursor |-> <<>>,
     Select |-> <<>>, Distinct |-> FALSE, KeysOnly |-> FALSE, Ancestor |-> <<>>,
     Transaction |-> FALSE]

PaginationResult(next, more, total) == [NextCursor |-> next, HasMore |-> more, Total |-> total]

----------------------------------------------------------------------------
(* Identifiers (Go `any`) and errors *)

StringID(s) == [t |-> "string", s |-> s, n |-> 0]
Int64ID(n) == [t |-> "int64", s |-> "", n |-> n]
NilID == [t |-> "nil", s |-> "", n |-> 0]
IntID(n) == [t |-> "int", s |-> "", n |-> n]     \* a Go int: neither string nor int64

NoErr == [msg |-> "nil", idx |-> -1]
Err(msg) == [msg |-> msg, idx |-> -1]
ErrAt(msg, i) == [msg |-> msg, idx |-> i]

ErrNotInitialized == Err("database is not initialized")
ErrNotSlice == Err("entities must be a slice")
ErrInvalidID == Err("invalid ID type")
ErrNoSuchEntity == Err("datastore: no such entity")
ErrStore == Err("store failure")
ErrInvalidFilter == Err("datastore: invalid filter")
IteratorDone == Err("no more items in iterator")

----------------------------------------------------------------------------
(* Store keys: datastore.NameKey, datastore.IDKey, datastore.IncompleteKey *)

NameKey(kind, name) == [kind |-> kind, name |-> name, id |-> 0]
IDKey(kind, id) == [kind |-> kind, name |-> "", id |-> id]
IncompleteKey(kind) == [kind |-> kind, name |-> "", id |-> 0]
Incomplete(k) == k.name = "" /\ k.id = 0

Names == <<"k1", "k2">>
NameRank(name) == CHOOSE i \in 1..Len(Names) : Names[i] = name

\* the store's key order within a kind: numeric ids first, then names
KeyBefore(k1, k2) ==
    IF k1.name = "" /\ k2.name = "" THEN k1.id < k2.id
    ELSE IF k1.name = "" THEN TRUE
    ELSE IF k2.name = "" THEN FALSE
    ELSE NameRank(k1.name) < NameRank(k2.name)

----------------------------------------------------------------------------
(* builder/builder.go: the fluent setters *)

New == [kind |-> "", params |-> QueryParams]

Kind(bd, kind) == [bd EXCEPT !.kind = kind]

Filter(bd, field, operator, value) ==
    [bd EXCEPT !.params.Filters = Append(@, FilterParam(field, operator, value))]

Where(bd, field, value) == Filter(bd, field, Equal, value)

\* a variant of WhereIn that keeps the condition on the first value only
WhereInFirstOnly(bd, field, values) ==
    IF values = <<>> THEN bd ELSE Filter(bd, field, Equal, Head(values))

RECURSIVE WhereIn(_, _, _)
WhereIn(bd, field, values) ==
    IF values = <<>> THEN bd
    ELSE WhereIn(Filter(bd, field, Equal, Head(values)), field, Tail(values))

WhereLike(bd, field, value) == Filter(bd, field, GreaterThanOrEqual, value)

\* a variant of Order that puts the new ordering first
OrderPrepend(bd, field, direction) ==
    [bd EXCEPT !.params.Orders = <<OrderParam(field, direction)>> \o @]

Order(bd, field, direction) ==
    [bd EXCEPT !.params.Orders = Append(@, OrderParam(field, direction))]

OrderAsc(bd, field) == Order(bd, field, Ascending)

OrderDesc(bd, field) == Order(bd, field, Descending)

\* a variant of Limit that keeps a limit already set
LimitKeepsFirst(bd, limit) ==
    IF bd.params.Limit # 0 THEN bd ELSE [bd EXCEPT !.params.Limit = limit]

Limit(bd, limit) == [bd EXCEPT !.params.Limit = limit]

Offset(bd, offset) == [bd EXCEPT !.params.Offset = offset]

Cursor(bd, cursor) == [bd EXCEPT !.params.Cursor = cursor]

Select(bd, fields) == [bd EXCEPT !.params.Select = fields]

Distinct(bd) == [bd EXCEPT !.params.Distinct = TRUE]

KeysOnly(bd) == [bd EXCEPT !.params.KeysOnly = TRUE]

Ancestor(bd, kind, id) == [bd EXCEPT !.params.Ancestor = <<AncestorParam(kind, id)>>]

----------------------------------------------------------------------------
(* The store's query object (datastore.Query) and cursor codec *)

NewQuery(kind) ==
    [kind |-> kind, filter |-> <<>>, order |-> <<>>, limit |-> -1, offset |-> 0,
     start |-> 0, projection |-> <<>>, distinct |-> FALSE, keysOnly |-> FALSE,
     ancestor |-> <<>>]

QFilter(q, str, value) == [q EXCEPT !.filter = Append(@, [str |-> str, value |-> value])]
QOrder(q, str) == [q EXCEPT !.order = Append(@, str)]
QLimit(q, n) == [q EXCEPT !.limit = n]
QOffset(q, n) == [q EXCEPT !.offset = n]
QStart(q, c) == [q EXCEPT !.start = c]
QProject(q, fields) == [q EXCEPT !.projection = fields]
QDistinct(q) == [q EXCEPT !.distinct = TRUE]
QKeysOnly(q) == [q EXCEPT !.keysOnly = TRUE]
QAncestor(q, key) == [q EXCEPT !.ancestor = <<key>>]

\* A cursor is a position in a query's ordered result stream: n > 0 stands for
\* "right after the n-th result"; 0 is the zero Cursor.  Its token is the letter
\* C followed by the position in decimal; the zero Cursor prints as "".
CursorString(c) == IF c = 0 THEN <<>> ELSE <<"C">> \o Decimal(c)

ErrDecode == Err("datastore: invalid cursor")

DecodeCursor(s) ==
    IF s = <<>> THEN [err |-> NoErr, cursor |-> 0]
    ELSE IF /\ Len(s) >= 2
            /\ Head(s) = "C"
            /\ \A i \in 2..Len(s) : IsDigit(s[i])
            /\ ParseDecimal(Tail(s), 0) > 0
         THEN [err |-> NoErr, cursor |-> ParseDecimal(Tail(s), 0)]
         ELSE [err |-> ErrDecode, cursor |-> 0]

encodeCursor(cursor) == CursorString(cursor)

\* a decoder that takes every string for the zero cursor
decodeCursorLenient(s) == [err |-> NoErr, cursor |-> 0]

decodeCursor(s) == DecodeCursor(s)

----------------------------------------------------------------------------
(* builder/builder.go: Build *)

RECURSIVE BuildFilters(_, _, _)
BuildFilters(q, filters, i) ==
    IF i > Len(filters) THEN q
    ELSE BuildFilters(QFilter(q, Sprintf(filters[i].Field, filters[i].Operator),
                              filters[i].Value),
                      filters, i + 1)

RECURSIVE BuildOrders(_, _, _)
BuildOrders(q, orders, i) ==
    IF i > Len(orders) THEN q
    ELSE BuildOrders(IF orders[i].Direction = Descending
                     THEN QOrder(q, <<"-">> \o orders[i].Field)
                     ELSE QOrder(q, orders[i].Field),
                     orders, i + 1)

BuildLimit(q, p) == IF p.Limit > 0 THEN QLimit(q, p.Limit) ELSE q

\* a variant of BuildOffset that applies a negative offset by its magnitude
BuildOffsetMagnitude(q, p) ==
    IF p.Offset # 0 THEN QOffset(q, Max(p.Offset, 0 - p.Offset)) ELSE q

BuildOffset(q, p) == IF p.Offset > 0 THEN QOffset(q, p.Offset) ELSE q

\* a variant of BuildCursor that never applies the start cursor
BuildCursorDropped(q, p) == q

BuildCursor(q, p) ==
    IF p.Cursor # <<>> /\ decodeCursor(p.Cursor).err = NoErr
    THEN QStart(q, decodeCursor(p.Cursor).cursor)
    ELSE q

BuildProjection(q, p) == IF Len(p.Select) > 0 THEN QProject(q, p.Select) ELSE q

BuildDistinct(q, p) == IF p.Distinct THEN QDistinct(q) ELSE q

BuildKeysOnly(q, p) == IF p.KeysOnly THEN QKeysOnly(q) ELSE q

BuildAncestor(q, p) ==
    IF p.Ancestor = <<>> THEN q
    ELSE LET a == p.Ancestor[1]
         IN  IF a.ID.t = "string" THEN QAncestor(q, NameKey(a.Kind, a.ID.s))
             ELSE IF a.ID.t = "int64" THEN QAncestor(q, IDKey(a.Kind, a.ID.n))
             ELSE q

Build(bd) ==
    LET p == bd.params
        q1 == BuildFilters(NewQuery(bd.kind), p.Filters, 1)
        q2 == BuildOrders(q1, p.Orders, 1)
        q3 == BuildLimit(q2, p)
        q4 == BuildOffset(q3, p)
        q5 == BuildCursor(q4, p)
        q6 == BuildProjection(q5, p)
        q7 == BuildDistinct(q6, p)
        q8 == BuildKeysOnly(q7, p)
    IN  BuildAncestor(q8, p)

----------------------------------------------------------------------------
(* The store's query evaluation (datastore.Client.GetAll / Run).  An entity  *)
(* is a function from property names to integers.                          *)

Operators == {Equal, LessThan, LessThanOrEqual, GreaterThan, GreaterThanOrEqual, NotEqual}

\* the store reads a filter string "field op" back into its two parts
ParseFilter(str) ==
    LET s == TrimSpace(str)
        field == TrimRight(s, {" ", ">", "<", "=", "!"})
        op == TrimSpace(SubSeq(s, Len(field) + 1, Len(s)))
    IN  [field |-> field, op |-> op, ok |-> field # <<>> /\ op \in Operators]

Holds(op, x, v) ==
    IF op = Equal THEN x = v
    ELSE IF op = LessThan THEN x < v
    ELSE IF op = LessThanOrEqual THEN x <= v
    ELSE IF op = GreaterThan THEN x > v
    ELSE IF op = GreaterThanOrEqual THEN x >= v
    ELSE x # v

Satisfies(e, f) ==
    LET pf == ParseFilter(f.str)
    IN  pf.field \in DOMAIN e /\ Holds(pf.op, e[pf.field], f.value)

QueryValid(q) == \A i \in 1..Len(q.filter) : ParseFilter(q.filter[i].str).ok

OrderField(o) == IF o # <<>> /\ Head(o) = "-" THEN Tail(o) ELSE o
OrderDescending(o) == o # <<>> /\ Head(o) = "-"

\* every key of the store has a nil parent, so a key's only ancestor is itself
Matching(q, st) ==
    {k \in DOMAIN st :
        /\ k.kind = q.kind
        /\ q.ancestor = <<>> \/ q.ancestor[1] = k
        /\ \A i \in 1..Len(q.filter) : Satisfies(st[k], q.filter[i])
        /\ \A i \in 1..Len(q.order) : OrderField(q.order[i]) \in DOMAIN st[k]}

RECURSIVE RowBefore(_, _, _, _, _)
RowBefore(q, st, k1, k2, i) ==
    IF i > Len(q.order) THEN KeyBefore(k1, k2)
    ELSE LET f == OrderField(q.order[i])
             x1 == st[k1][f]
             x2 == st[k2][f]
         IN  IF x1 = x2 THEN RowBefore(q, st, k1, k2, i + 1)
             ELSE IF OrderDescending(q.order[i]) THEN x1 > x2 ELSE x1 < x2

RECURSIVE Sorted(_, _, _)
Sorted(q, st, S) ==
    IF S = {} THEN <<>>
    ELSE LET m == CHOOSE x \in S : \A y \in S \ {x} : RowBefore(q, st, x, y, 1)
         IN  <<m>> \o Sorted(q, st, S \ {m})

\* the ordered result stream of q: start cursor, then offset, then limit; each
\* item carries the cursor right after it
Results(q, st) ==
    LET all == Sorted(q, st, Matching(q, st))
        skip == q.start + q.offset
        last == IF q.limit < 0 THEN Len(all) ELSE Min(Len(all), skip + q.limit)
    IN  [i \in 1..Max(last - skip, 0) |-> [key |-> all[skip + i], cursor |-> skip + i]]

KeysOf(items) == [i \in 1..Len(items) |-> items[i].key]

GetAll(q, st, fail) ==
    IF fail THEN [err |-> ErrStore, keys |-> <<>>]
    ELSE IF ~QueryValid(q) THEN [err |-> ErrInvalidFilter, keys |-> <<>>]
    ELSE [err |-> NoErr, keys |-> KeysOf(Results(q, st))]

\* the lazy iterator of Run: an invalid query fails at the first Next
Run(q, st) ==
    IF QueryValid(q) THEN [err |-> NoErr, items |-> Results(q, st)]
    ELSE [err |-> ErrInvalidFilter, items |-> <<>>]

----------------------------------------------------------------------------
(* builder/builder.go: Execute, ExecuteWithCursor, Count *)

\* a variant of Execute whose has-more test forgets that limit 0 means unset
ExecuteUnsetLimit(bd, st, fail) ==
    LET query == Build(bd)
        r == GetAll(query, st, fail)
    IN  IF r.err # NoErr
        THEN [pg |-> <<>>, err |-> r.err, query |-> query, dest |-> <<>>]
        ELSE [pg |-> <<PaginationResult(<<>>, Len(r.keys) = bd.params.Limit, Len(r.keys))>>,
              err |-> NoErr, query |-> query, dest |-> r.keys]

Execute(bd, st, fail) ==
    LET query == Build(bd)
        r == GetAll(query, st, fail)
    IN  IF r.err # NoErr
        THEN [pg |-> <<>>, err |-> r.err, query |-> query, dest |-> <<>>]
        ELSE [pg |-> <<PaginationResult(<<>>,
                                        Len(r.keys) = bd.params.Limit /\ bd.params.Limit > 0,
                                        Len(r.keys))>>,
              err |-> NoErr, query |-> query, dest |-> r.keys]

\* fault.next = i: the i-th it.Next fails; fault.cursor = i: the i-th it.Cursor fails
NoFault == [next |-> 0, cursor |-> 0]

RECURSIVE CursorLoop(_, _, _, _, _)
CursorLoop(it, fault, i, count, lastCursor) ==
    IF fault.next = i THEN [err |-> ErrStore, count |-> count, lastCursor |-> lastCursor]
    ELSE IF it.err # NoErr THEN [err |-> it.err, count |-> count, lastCursor |-> lastCursor]
    ELSE IF i > Len(it.items) THEN [err |-> NoErr, count |-> count, lastCursor |-> lastCursor]
    ELSE IF fault.cursor = i THEN [err |-> ErrStore, count |-> count + 1, lastCursor |-> 0]
    ELSE CursorLoop(it, fault, i + 1, count + 1, it.items[i].cursor)

\* a variant of ExecuteWithCursor that attaches the cursor to every non-empty page
ExecuteWithCursorAlways(bd, st, fault) ==
    LET query == Build(bd)
        it == Run(query, st)
        l == CursorLoop(it, fault, 1, 0, 0)
        more == l.count = bd.params.Limit /\ bd.params.Limit > 0
    IN  IF l.err # NoErr
        THEN [pg |-> <<>>, err |-> l.err, query |-> query, streamed |-> <<>>]
        ELSE [pg |-> <<PaginationResult(IF l.count > 0
                                        THEN encodeCursor(l.lastCursor) ELSE <<>>,
                                        more, l.count)>>,
              err |-> NoErr, query |-> query,
              streamed |-> KeysOf(Take(it.items, l.count))]

ExecuteWithCursor(bd, st, fault) ==
    LET query == Build(bd)
        it == Run(query, st)
        l == CursorLoop(it, fault, 1, 0, 0)
        more == l.count = bd.params.Limit /\ bd.params.Limit > 0
    IN  IF l.err # NoErr
        THEN [pg |-> <<>>, err |-> l.err, query |-> query, streamed |-> <<>>]
        ELSE [pg |-> <<PaginationResult(IF l.count > 0 /\ more
                                        THEN encodeCursor(l.lastCursor) ELSE <<>>,
                                        more, l.count)>>,
              err |-> NoErr, query |-> query,
              streamed |-> KeysOf(Take(it.items, l.count))]

\* a variant of Count that counts on the receiver itself instead of a copy
CountOnReceiver(bd, st, fail) ==
    LET countBuilder == KeysOnly(bd)
        query == Build(countBuilder)
        r == GetAll(query, st, fail)
    IN  IF r.err # NoErr
        THEN [orig |-> countBuilder, n |-> 0, err |-> r.err, query |-> query]
        ELSE [orig |-> countBuilder, n |-> Len(r.keys), err |-> NoErr, query |-> query]

\* a variant of Count whose clone drops the limit and the offset
CountWholeResult(bd, st, fail) ==
    LET countBuilder == KeysOnly(Offset(Limit([kind |-> bd.kind, params |-> bd.params], 0), 0))
        query == Build(countBuilder)
        r == GetAll(query, st, fail)
    IN  IF r.err # NoErr
        THEN [orig |-> bd, n |-> 0, err |-> r.err, query |-> query]
        ELSE [orig |-> bd, n |-> Len(r.keys), err |-> NoErr, query |-> query]

\* orig is the receiver as the call leaves it
Count(bd, st, fail) ==
    LET countBuilder == KeysOnly([kind |-> bd.kind, params |-> bd.params])
        query == Build(countBuilder)
        r == GetAll(query, st, fail)
    IN  IF r.err # NoErr
        THEN [orig |-> bd, n |-> 0, err |-> r.err, query |-> query]
        ELSE [orig |-> bd, n |-> Len(r.keys), err |-> NoErr, query |-> query]

----------------------------------------------------------------------------
(* Inputs and idle values *)

F_age == <<"a", "g", "e">>
F_st == <<"s", "t">>
F_name == <<"n", "a", "m", "e">>

EmptyStore == [k \in {} |-> <<>>]

\* last: the latest argument given to each overwriting setter; sets: how often
\* each of them was called
NoHist ==
    [filters |-> <<>>, orders |-> <<>>, selected |-> <<>>, n |-> 0,
     last |-> [Kind |-> "", Limit |-> 0, Offset |-> 0, Cursor |-> <<>>, Ancestor |-> <<>>],
     sets |-> [Kind |-> 0, Limit |-> 0, Offset |-> 0, Cursor |-> 0, Ancestor |-> 0]]
NoRet == [op |-> "none"]
NoPaging == [active |-> FALSE, base |-> New, items |-> <<>>, n |-> 0]
NoBulk == [pc |-> "idle"]

----------------------------------------------------------------------------
(* The fluent builder: a caller chains at most MaxCalls setter calls on a  *)
(* new builder.  hist records what the caller passed, in call order.       *)

FilterArgs ==
    {FilterParam(F_age, GreaterThanOrEqual, 1),
     FilterParam(F_st, NotEqual, 2),
     FilterParam(F_age, LessThan, 2)}

Called(h) == [h EXCEPT !.n = @ + 1]

Set(h, setter, arg) == [Called(h) EXCEPT !.last[setter] = arg, !.sets[setter] = @ + 1]

notBuilder == <<store, ret, calls, paging, bulk, nops>>

InitBuilder ==
    /\ b = New
    /\ hist = NoHist
    /\ store = EmptyStore
    /\ ret = NoRet
    /\ calls = <<>>
    /\ paging = NoPaging
    /\ bulk = NoBulk
    /\ nops = 0

KindCall ==
    /\ hist.n < MaxCalls
    /\ \E kind \in {"users", "posts"} :
        /\ b' = Kind(b, kind)
        /\ hist' = Set(hist, "Kind", kind)
    /\ UNCHANGED notBuilder

FilterCall ==
    /\ hist.n < MaxCalls
    /\ \E f \in FilterArgs :
        /\ b' = Filter(b, f.Field, f.Operator, f.Value)
        /\ hist' = [Called(hist) EXCEPT !.filters = Append(@, f)]
    /\ UNCHANGED notBuilder

WhereCall ==
    /\ hist.n < MaxCalls
    /\ b' = Where(b, F_st, 1)
    /\ hist' = [Called(hist) EXCEPT !.filters = Append(@, FilterParam(F_st, Equal, 1))]
    /\ UNCHANGED notBuilder

WhereInCall ==
    /\ hist.n < MaxCalls
    /\ \E values \in {<<>>, <<1, 2>>} :
        /\ b' = WhereIn(b, F_st, values)
        /\ hist' = [Called(hist) EXCEPT
                      !.filters = @ \o [i \in 1..Len(values) |->
                                          FilterParam(F_st, Equal, values[i])]]
    /\ UNCHANGED notBuilder

WhereLikeCall ==
    /\ hist.n < MaxCalls
    /\ b' = WhereLike(b, F_name, 1)
    /\ hist' = [Called(hist) EXCEPT
                  !.filters = Append(@, FilterParam(F_name, GreaterThanOrEqual, 1))]
    /\ UNCHANGED notBuilder

OrderCall ==
    /\ hist.n < MaxCalls
    /\ \E direction \in {Ascending, Descending, "sideways"} :
        /\ b' = Order(b, F_age, direction)
        /\ hist' = [Called(hist) EXCEPT !.orders = Append(@, OrderParam(F_age, direction))]
    /\ UNCHANGED notBuilder

OrderAscCall ==
    /\ hist.n < MaxCalls
    /\ b' = OrderAsc(b, F_name)
    /\ hist' = [Called(hist) EXCEPT !.orders = Append(@, OrderParam(F_name, Ascending))]
    /\ UNCHANGED notBuilder

OrderDescCall ==
    /\ hist.n < MaxCalls
    /\ b' = OrderDesc(b, F_st)
    /\ hist' = [Called(hist) EXCEPT !.orders = Append(@, OrderParam(F_st, Descending))]
    /\ UNCHANGED notBuilder

LimitCall ==
    /\ hist.n < MaxCalls
    /\ \E limit \in {-1, 0, 2} :
        /\ b' = Limit(b, limit)
        /\ hist' = Set(hist, "Limit", limit)
    /\ UNCHANGED notBuilder

OffsetCall ==
    /\ hist.n < MaxCalls
    /\ \E offset \in {-1, 0, 1} :
        /\ b' = Offset(b, offset)
        /\ hist' = Set(hist, "Offset", offset)
    /\ UNCHANGED notBuilder

CursorCall ==
    /\ hist.n < MaxCalls
    /\ \E cursor \in {<<>>, CursorString(1), <<"x">>} :
        /\ b' = Cursor(b, cursor)
        /\ hist' = Set(hist, "Cursor", cursor)
    /\ UNCHANGED notBuilder

SelectCall ==
    /\ hist.n < MaxCalls
    /\ \E fields \in {<<>>, <<F_name>>, <<F_age, F_st>>} :
        /\ b' = Select(b, fields)
        /\ hist' = [Called(hist) EXCEPT !.selected = @ \o fields]
    /\ UNCHANGED notBuilder

DistinctCall ==
    /\ hist.n < MaxCalls
    /\ b' = Distinct(b)
    /\ hist' = Called(hist)
    /\ UNCHANGED notBuilder

KeysOnlyCall ==
    /\ hist.n < MaxCalls
    /\ b' = KeysOnly(b)
    /\ hist' = Called(hist)
    /\ UNCHANGED notBuilder

AncestorCall ==
    /\ hist.n < MaxCalls
    /\ \E id \in {StringID("k1"), Int64ID(1), IntID(1)} :
        /\ b' = Ancestor(b, "orgs", id)
        /\ hist' = Set(hist, "Ancestor", <<AncestorParam("orgs", id)>>)
    /\ UNCHANGED notBuilder

NextBuilder ==
    \/ KindCall \/ FilterCall \/ WhereCall \/ WhereInCall \/ WhereLikeCall
    \/ OrderCall \/ OrderAscCall \/ OrderDescCall
    \/ LimitCall \/ OffsetCall \/ CursorCall \/ SelectCall
    \/ DistinctCall \/ KeysOnlyCall \/ AncestorCall

SpecBuilder == InitBuilder /\ [][NextBuilder]_vars

----------------------------------------------------------------------------
(* Claims about the fluent builder, checked under SpecBuilder *)

NativeFilter(f) == [str |-> f.Field \o <<" ">> \o f.Operator, value |-> f.Value]
NativeOrder(o) == IF o.Direction = Descending THEN <<"-">> \o o.Field ELSE o.Field

\* C9: the builder's filters are exactly the conditions passed to
\* Filter/Where/WhereIn/WhereLike in call order, its orders exactly those passed
\* to Order/OrderAsc/OrderDesc in call order, and Build hands them to the native
\* query in that order: each filter as "field operator" with its value, each
\* descending order as "-field", every other order as "field".
C9_FiltersAndOrdersKeepCallOrder ==
    /\ b.params.Filters = hist.filters
    /\ b.params.Orders = hist.orders
    /\ Build(b).filter = [i \in 1..Len(hist.filters) |-> NativeFilter(hist.filters[i])]
    /\ Build(b).order = [i \in 1..Len(hist.orders) |-> NativeOrder(hist.orders[i])]

\* two different filters and two different orders, one of them descending
C9_Witness ==
    /\ Len(hist.filters) >= 2
    /\ hist.filters[1] # hist.filters[2]
    /\ Len(hist.orders) >= 2
    /\ hist.orders[1] # hist.orders[2]
    /\ \E i \in 1..Len(hist.orders) : hist.orders[i].Direction = Descending
    /\ Build(b).order[1] # Build(b).order[2]

\* C10 (as claimed): every field passed to any Select call so far is in the
\* builder's projection.
C10_SelectAccumulates ==
    \A i \in 1..Len(hist.selected) :
        \E j \in 1..Len(b.params.Select) : b.params.Select[j] = hist.selected[i]

\* C11: Kind, Limit, Offset, Cursor and Ancestor are last-write-wins: after
\* any sequence of builder calls each of these fields holds the argument of the
\* latest call of its setter, or its default if the setter was never called.
C11_LastWriteWins ==
    /\ b.kind = hist.last.Kind
    /\ b.params.Limit = hist.last.Limit
    /\ b.params.Offset = hist.last.Offset
    /\ b.params.Cursor = hist.last.Cursor
    /\ b.params.Ancestor = hist.last.Ancestor
    /\ \A setter \in DOMAIN hist.sets : hist.sets[setter] = 0 => hist.last[setter] = NoHist.last[setter]

\* Limit called twice with another method in between, and the later value holds
C11_Witness ==
    /\ hist.sets.Limit = 2
    /\ hist.last.Limit = -1
    /\ hist.sets.Offset = 1
    /\ hist.filters # <<>>
    /\ b.params.Limit = -1

----------------------------------------------------------------------------
(* repository/repository.go: applyQueryParams *)

RECURSIVE ApplyFilters(_, _, _)
ApplyFilters(bd, filters, i) ==
    IF i > Len(filters) THEN bd
    ELSE ApplyFilters(Filter(bd, filters[i].Field, filters[i].Operator, filters[i].Value),
                      filters, i + 1)

RECURSIVE ApplyOrders(_, _, _)
ApplyOrders(bd, orders, i) ==
    IF i > Len(orders) THEN bd
    ELSE ApplyOrders(Order(bd, orders[i].Field, orders[i].Direction), orders, i + 1)

applyQueryParams(bd, params) ==
    LET b1 == ApplyOrders(ApplyFilters(bd, params.Filters, 1), params.Orders, 1)
        b2 == IF params.Limit > 0 THEN Limit(b1, params.Limit) ELSE b1
        b3 == IF params.Offset > 0 THEN Offset(b2, params.Offset) ELSE b2
        b4 == IF params.Cursor # <<>> THEN Cursor(b3, params.Cursor) ELSE b3
        b5 == IF Len(params.Select) > 0 THEN Select(b4, params.Select) ELSE b4
        b6 == IF params.Distinct THEN Distinct(b5) ELSE b5
        b7 == IF params.KeysOnly THEN KeysOnly(b6) ELSE b6
    IN  IF params.Ancestor # <<>>
        THEN Ancestor(b7, params.Ancestor[1].Kind, params.Ancestor[1].ID)
        ELSE b7

----------------------------------------------------------------------------
(* Executing a builder against an unchanged store.  The builder is one a   *)
(* caller can chain; the store holds 0..MaxEntities users and one post.    *)

Entity(i) == (F_age :> i) @@ (F_st :> (i % 2)) @@ (F_name :> i)

QueryStore(n) ==
    [k \in {IDKey("users", i) : i \in 1..n} \cup {IDKey("posts", 1)} |-> Entity(k.id)]

QueryFilters ==
    {<<>>,
     <<FilterParam(F_age, GreaterThanOrEqual, 2)>>,
     <<FilterParam(F_st, Equal, 1)>>}

QueryOrders == {<<>>, <<OrderParam(F_age, Descending)>>}

QueryBuilders ==
    {Cursor(Offset(Limit(ApplyOrders(ApplyFilters(Kind(New, "users"), f, 1), o, 1), l), off), c) :
        f \in QueryFilters, o \in QueryOrders, l \in -1..MaxLimit, off \in {0, 1},
        c \in {<<>>, <<"x">>}}

Faults ==
    {NoFault} \cup {[next |-> i, cursor |-> 0] : i \in 1..2}
              \cup {[next |-> 0, cursor |-> i] : i \in 1..2}

notQuery == <<hist, store, calls, bulk, nops>>

InitQuery ==
    /\ b \in QueryBuilders
    /\ hist = NoHist
    /\ store \in {QueryStore(n) : n \in 0..MaxEntities}
    /\ ret = [op |-> "none", before |-> b]
    /\ calls = <<>>
    /\ paging = NoPaging
    /\ bulk = NoBulk
    /\ nops = 0

ExecuteCall ==
    /\ \E fail \in BOOLEAN :
        ret' = [op |-> "Execute", before |-> b, out |-> Execute(b, store, fail),
                fail |-> fail]
    /\ b' = b
    /\ paging' = NoPaging
    /\ UNCHANGED notQuery

CountCall ==
    /\ \E fail \in BOOLEAN :
        LET r == Count(b, store, fail)
        IN  /\ b' = r.orig
            /\ ret' = [op |-> "Count", before |-> b, out |-> r,
                       fail |-> fail]
    /\ paging' = NoPaging
    /\ UNCHANGED notQuery

\* a page continues the running sequence of pages when it runs on the builder
\* that NextPageCall has just made from the previous page's NextCursor
ExecuteWithCursorCall ==
    /\ \E fault \in Faults :
        LET r == ExecuteWithCursor(b, store, fault)
        IN  /\ ret' = [op |-> "ExecuteWithCursor", before |-> b, out |-> r,
                       fault |-> fault]
            /\ paging' = IF r.err # NoErr THEN NoPaging
                         ELSE IF ret.op = "NextPage" /\ paging.active
                         THEN [paging EXCEPT !.items = @ \o r.streamed, !.n = @ + 1]
                         ELSE [active |-> TRUE, base |-> b, items |-> r.streamed, n |-> 1]
    /\ b' = b
    /\ UNCHANGED notQuery

\* the caller asks for the next page: a new builder of the same kind, filters,
\* orders and limit, with the cursor the last page returned
NextPageCall ==
    /\ ret.op = "ExecuteWithCursor"
    /\ ret.out.err = NoErr
    /\ ret.out.pg[1].NextCursor # <<>>
    /\ b' = applyQueryParams(Kind(New, b.kind),
                             [QueryParams EXCEPT !.Filters = b.params.Filters,
                                                 !.Orders = b.params.Orders,
                                                 !.Limit = b.params.Limit,
                                                 !.Cursor = ret.out.pg[1].NextCursor])
    /\ ret' = [op |-> "NextPage", before |-> b]
    /\ UNCHANGED paging
    /\ UNCHANGED notQuery

NextQuery == ExecuteCall \/ CountCall \/ ExecuteWithCursorCall \/ NextPageCall

SpecQuery == InitQuery /\ [][NextQuery]_vars

----------------------------------------------------------------------------
(* Claims about executing a builder, checked under SpecQuery *)

\* C1: a successful Execute returns Total = the number of entities the store
\* returned for the built query and HasMore = (limit > 0 and Total = limit); so
\* with limit 0 HasMore is false whatever matched, and when exactly `limit`
\* entities match (nothing skipped) HasMore is still true.
C1_ExecutePagination ==
    (ret.op = "Execute" /\ ret.out.err = NoErr) =>
        LET limit == ret.before.params.Limit
            query == Build(ret.before)
            returned == GetAll(query, store, FALSE).keys
            pg == ret.out.pg[1]
        IN  /\ Len(ret.out.pg) = 1
            /\ pg.Total = Len(returned)
            /\ pg.HasMore <=> (limit > 0 /\ pg.Total = limit)
            /\ limit = 0 => ~pg.HasMore
            /\ (/\ limit > 0
                /\ query.offset = 0
                /\ query.start = 0
                /\ Cardinality(Matching(query, store)) = limit) => pg.HasMore

\* limit 2, exactly 2 matches in the store, nothing skipped: HasMore is true
C1_Witness ==
    /\ ret.op = "Execute"
    /\ ret.out.err = NoErr
    /\ ret.before.params.Limit = 2
    /\ Build(ret.before).offset = 0
    /\ Build(ret.before).start = 0
    /\ Cardinality(Matching(Build(ret.before), store)) = 2
    /\ ret.out.pg[1].Total = 2
    /\ ret.out.pg[1].HasMore

\* C6: Count, succeeding or failing, leaves its builder exactly as it was (kind
\* and every parameter), while the query it counts with is keys-only; an Execute
\* that follows builds the query it would have built before the Count.
C6_CountLeavesBuilderUnchanged ==
    ret.op = "Count" =>
        /\ b = ret.before
        /\ ret.out.query.keysOnly
        /\ Execute(b, store, FALSE).query = Build(ret.before)
        /\ Execute(b, store, FALSE).query.keysOnly = ret.before.params.KeysOnly

\* a Count on a builder with a filter, a limit and an offset that is not keys-only
C6_Witness ==
    /\ ret.op = "Count"
    /\ ret.out.err = NoErr
    /\ ret.out.n > 0
    /\ ~b.params.KeysOnly
    /\ b.params.Limit > 0
    /\ b.params.Offset > 0
    /\ Len(b.params.Filters) > 0

\* C28: the query Count runs carries the builder's limit and offset.  With a
\* limit L > 0 Count returns at most L; with an offset K > 0 the first K
\* matching entities are not counted; what it returns is the number of
\* matching entities when neither is set (and the builder has no cursor, which
\* the query carries as well), and less than that as soon as more than L
\* entities match or, with an offset, any entity matches.
C28_CountInheritsLimitAndOffset ==
    (ret.op = "Count" /\ ret.out.err = NoErr)
    => LET L == ret.before.params.Limit
           K == ret.before.params.Offset
           total == Cardinality(Matching(Build(ret.before), store))
           start == DecodeCursor(ret.before.params.Cursor).cursor
           rest == Max(total - (start + Max(K, 0)), 0)
           n == ret.out.n
       IN  /\ ret.out.query.keysOnly
           /\ ret.out.query.limit = IF L > 0 THEN L ELSE -1
           /\ ret.out.query.offset = Max(K, 0)
           /\ n = IF L > 0 THEN Min(L, rest) ELSE rest
           /\ L > 0 => n <= L
           /\ K > 0 => n <= Max(total - K, 0)
           /\ (L <= 0 /\ K <= 0 /\ start = 0) => n = total
           /\ (L > 0 /\ total > L) => n < total
           /\ (K > 0 /\ total > 0) => n < total

\* three entities match; with limit 1 and offset 1 Count returns 1
C28_Witness ==
    /\ ret.op = "Count"
    /\ ret.out.err = NoErr
    /\ ret.before.params.Limit = 1
    /\ ret.before.params.Offset = 1
    /\ Cardinality(Matching(Build(ret.before), store)) = 3
    /\ ret.out.n = 1

\* the items the iterator yields for the builder the last operation ran on
Streamed == Run(Build(ret.before), store)

\* whether the injected fault, or an invalid query, made a Next or Cursor call fail
Faulted ==
    \/ Streamed.err # NoErr
    \/ ret.fault.next \in 1..(Len(Streamed.items) + 1)
    \/ ret.fault.cursor \in 1..Len(Streamed.items)

\* C7: a completed ExecuteWithCursor has NextCursor non-empty iff HasMore (limit
\* > 0 and count = limit) and at least one item came, and then NextCursor encodes
\* the cursor captured right after the last item; a failing Next or Cursor call
\* gives the error and no PaginationResult.
C7_NextCursorIffHasMore ==
    ret.op = "ExecuteWithCursor" =>
        IF Faulted THEN ret.out.err # NoErr /\ ret.out.pg = <<>>
        ELSE LET limit == ret.before.params.Limit
                 items == Streamed.items
                 pg == ret.out.pg[1]
             IN  /\ ret.out.err = NoErr
                 /\ Len(ret.out.pg) = 1
                 /\ pg.Total = Len(items)
                 /\ pg.HasMore <=> (limit > 0 /\ pg.Total = limit)
                 /\ (pg.NextCursor # <<>>) <=> (pg.HasMore /\ pg.Total > 0)
                 /\ pg.NextCursor # <<>> =>
                        pg.NextCursor = CursorString(items[Len(items)].cursor)

\* a full page of two items that carries a cursor
C7_Witness ==
    /\ ret.op = "ExecuteWithCursor"
    /\ ret.out.err = NoErr
    /\ ret.out.pg[1].Total = 2
    /\ ret.out.pg[1].HasMore
    /\ ret.out.pg[1].NextCursor # <<>>

\* the whole result of the first page's query with its limit taken off
Unpaginated == KeysOf(Results(Build(Limit(paging.base, 0)), store))

\* C8: on an unchanged store, the pages got by following NextCursor with a
\* builder of the same kind, filters, orders and limit are, put end to end,
\* the first n*limit items of the unpaginated result: each page resumes right
\* after the last item of the page before, nothing twice and nothing left out.
C8_CursorResumesExactly ==
    paging.active =>
        paging.items = IF paging.base.params.Limit > 0
                       THEN Take(Unpaginated, paging.n * paging.base.params.Limit)
                       ELSE Unpaginated

\* a second page that brought further items
C8_Witness ==
    /\ paging.active
    /\ paging.n >= 2
    /\ Len(paging.items) > paging.base.params.Limit
    /\ ret.op = "ExecuteWithCursor"

----------------------------------------------------------------------------
(* The store client's entity operations (datastore.Client Get, Put, Delete *)
(* and their Multi forms).  fail says that the store fails this call.      *)

ErrInvalidKey == Err("datastore: invalid key")
ErrLength == Err("datastore: keys and src slices have different length")

\* the store call log: one entry per call that reaches the store client
StoreCall(op, keys, entities, query) ==
    [op |-> op, keys |-> keys, entities |-> entities, query |-> query]

\* a new numeric id of the kind: the least one not in use
FreshID(st, kind) ==
    CHOOSE n \in 1..(Cardinality(DOMAIN st) + 1) :
        /\ IDKey(kind, n) \notin DOMAIN st
        /\ \A m \in 1..(n - 1) : IDKey(kind, m) \in DOMAIN st

\* an incomplete key is completed with a new id; an existing entity is replaced
Upsert(st, key, entity) ==
    LET k == IF Incomplete(key) THEN IDKey(key.kind, FreshID(st, key.kind)) ELSE key
    IN  (k :> entity) @@ st

Remove(st, key) == [k \in DOMAIN st \ {key} |-> st[k]]

RECURSIVE UpsertAll(_, _, _, _)
UpsertAll(st, keys, entities, i) ==
    IF i > Len(keys) THEN st
    ELSE UpsertAll(Upsert(st, keys[i], entities[i]), keys, entities, i + 1)

RECURSIVE RemoveAll(_, _, _)
RemoveAll(st, keys, i) ==
    IF i > Len(keys) THEN st ELSE RemoveAll(Remove(st, keys[i]), keys, i + 1)

ClientGet(st, key, fail) ==
    IF fail THEN [err |-> ErrStore, entity |-> <<>>]
    ELSE IF Incomplete(key) THEN [err |-> ErrInvalidKey, entity |-> <<>>]
    ELSE IF key \in DOMAIN st THEN [err |-> NoErr, entity |-> <<st[key]>>]
    ELSE [err |-> ErrNoSuchEntity, entity |-> <<>>]

ClientGetMulti(st, keys, fail) ==
    IF fail THEN [err |-> ErrStore, entities |-> <<>>]
    ELSE IF \E i \in 1..Len(keys) : Incomplete(keys[i])
    THEN [err |-> ErrInvalidKey, entities |-> <<>>]
    ELSE IF \E i \in 1..Len(keys) : keys[i] \notin DOMAIN st
    THEN [err |-> ErrNoSuchEntity, entities |-> <<>>]
    ELSE [err |-> NoErr, entities |-> [i \in 1..Len(keys) |-> st[keys[i]]]]

ClientPut(st, key, entity, fail) ==
    IF fail THEN [err |-> ErrStore, st |-> st]
    ELSE [err |-> NoErr, st |-> Upsert(st, key, entity)]

ClientPutMulti(st, keys, entities, fail) ==
    IF fail THEN [err |-> ErrStore, st |-> st]
    ELSE IF Len(keys) # Len(entities) THEN [err |-> ErrLength, st |-> st]
    ELSE [err |-> NoErr, st |-> UpsertAll(st, keys, entities, 1)]

ClientDelete(st, key, fail) ==
    IF fail THEN [err |-> ErrStore, st |-> st]
    ELSE IF Incomplete(key) THEN [err |-> ErrInvalidKey, st |-> st]
    ELSE [err |-> NoErr, st |-> Remove(st, key)]

ClientDeleteMulti(st, keys, fail) ==
    IF fail THEN [err |-> ErrStore, st |-> st]
    ELSE IF \E i \in 1..Len(keys) : Incomplete(keys[i]) THEN [err |-> ErrInvalidKey, st |-> st]
    ELSE [err |-> NoErr, st |-> RemoveAll(st, keys, 1)]

\* the caller's unit of work fn returns fnErr; the store may fail the commit
RunInTransaction(fnErr, fail) == IF fail THEN ErrStore ELSE fnErr

----------------------------------------------------------------------------
(* builder/filter.go: FilterBuilder.FromMap.  A map is a function from keys *)
(* to values; order lists its keys in the order the range loop visits them. *)

NewFilter == <<>>

FromMapEntry(key, value) ==
    IF Contains(key, <<">", "=">>)
    THEN FilterParam(TrimSpace(SplitFirst(key, <<">", "=">>)), GreaterThanOrEqual, value)
    ELSE IF Contains(key, <<"<", "=">>)
    THEN FilterParam(TrimSpace(SplitFirst(key, <<"<", "=">>)), LessThanOrEqual, value)
    ELSE IF Contains(key, <<">">>)
    THEN FilterParam(TrimSpace(SplitFirst(key, <<">">>)), GreaterThan, value)
    ELSE IF Contains(key, <<"<">>)
    THEN FilterParam(TrimSpace(SplitFirst(key, <<"<">>)), LessThan, value)
    ELSE IF Contains(key, <<"!", "=">>)
    THEN FilterParam(TrimSpace(SplitFirst(key, <<"!", "=">>)), NotEqual, value)
    ELSE FilterParam(key, Equal, value)

\* a variant of FromMap that puts each condition before the accumulated ones
RECURSIVE FromMapPrepend(_, _, _)
FromMapPrepend(filters, m, order) ==
    IF order = <<>> THEN filters
    ELSE FromMapPrepend(<<FromMapEntry(Head(order), m[Head(order)])>> \o filters, m, Tail(order))

RECURSIVE FromMap(_, _, _)
FromMap(filters, m, order) ==
    IF order = <<>> THEN filters
    ELSE FromMap(Append(filters, FromMapEntry(Head(order), m[Head(order)])), m, Tail(order))

\* the orders in which a range loop may visit the keys of m
RangeOrders(m) ==
    {o \in [1..Cardinality(DOMAIN m) -> DOMAIN m] : \A i, j \in DOMAIN o : i # j => o[i] # o[j]}

----------------------------------------------------------------------------
(* exec/exec.go: the Executor.  ctx says what the context holds under the   *)
(* client key; st is the store; the result carries the error, the value     *)
(* handed back (return value or dest), the store afterwards and the calls   *)
(* that reached the store client.                                           *)

Contexts == {"client", "absent", "nil", "other"}

\* ref.(*datastore.Client) succeeds and is not nil
HasClient(ctx) == ctx = "client"

Done(err, val, st, cs) == [err |-> err, val |-> val, st |-> st, calls |-> cs]

\* an argument of type any that is a slice, and one that is not
SliceOf(items) == [slice |-> TRUE, items |-> items]
NotASlice == [slice |-> FALSE, items |-> <<>>]

KeyOf(kind, id) ==
    CASE id.t = "string" -> NameKey(kind, id.s)
      [] id.t = "int64" -> IDKey(kind, id.n)
      [] OTHER -> IncompleteKey(kind)

KeysFor(kind, ids) == [i \in 1..Len(ids) |-> KeyOf(kind, ids[i])]

\* a variant of FirstInvalid that finds the last such id
LastInvalid(ids, types) ==
    IF \E i \in 1..Len(ids) : ids[i].t \notin types
    THEN CHOOSE i \in 1..Len(ids) :
            /\ ids[i].t \notin types
            /\ \A j \in (i + 1)..Len(ids) : ids[j].t \in types
    ELSE 0

\* the position of the first id whose type is not in types, 0 if none
FirstInvalid(ids, types) ==
    IF \E i \in 1..Len(ids) : ids[i].t \notin types
    THEN CHOOSE i \in 1..Len(ids) :
            /\ ids[i].t \notin types
            /\ \A j \in 1..(i - 1) : ids[j].t \in types
    ELSE 0

RECURSIVE FilterEach(_, _)
FilterEach(bd, filters) ==
    IF filters = <<>> THEN bd
    ELSE FilterEach(Filter(bd, Head(filters).Field, Head(filters).Operator,
                           Head(filters).Value), Tail(filters))

GetByID(ctx, kind, id, st, fail) ==
    IF ~HasClient(ctx) THEN Done(ErrNotInitialized, <<>>, st, <<>>)
    ELSE IF id.t \notin {"string", "int64"} THEN Done(ErrInvalidID, <<>>, st, <<>>)
    ELSE LET key == KeyOf(kind, id)
             r == ClientGet(st, key, fail)
         IN  Done(r.err, r.entity, st, <<StoreCall("Get", <<key>>, <<>>, <<>>)>>)

GetMulti(ctx, kind, ids, st, fail) ==
    IF ~HasClient(ctx) THEN Done(ErrNotInitialized, <<>>, st, <<>>)
    ELSE IF FirstInvalid(ids, {"string", "int64"}) # 0
    THEN Done(ErrAt("invalid ID type at index", FirstInvalid(ids, {"string", "int64"}) - 1),
              <<>>, st, <<>>)
    ELSE LET keys == KeysFor(kind, ids)
             r == ClientGetMulti(st, keys, fail)
         IN  Done(r.err, r.entities, st, <<StoreCall("GetMulti", keys, <<>>, <<>>)>>)

\* Create refusing to overwrite an entity the store already holds
CreateInsertOnly(ctx, kind, id, entity, st, fail) ==
    IF ~HasClient(ctx) THEN Done(ErrNotInitialized, <<>>, st, <<>>)
    ELSE IF id.t \notin {"string", "int64", "nil"} THEN Done(ErrInvalidID, <<>>, st, <<>>)
    ELSE LET key == KeyOf(kind, id)
             r == ClientPut(st, key, entity, fail)
         IN  IF key \in DOMAIN st
             THEN Done(Err("concurrent modification"), <<>>, st, <<>>)
             ELSE Done(r.err, <<>>, r.st, <<StoreCall("Put", <<key>>, <<entity>>, <<>>)>>)

Create(ctx, kind, id, entity, st, fail) ==
    IF ~HasClient(ctx) THEN Done(ErrNotInitialized, <<>>, st, <<>>)
    ELSE IF id.t \notin {"string", "int64", "nil"} THEN Done(ErrInvalidID, <<>>, st, <<>>)
    ELSE LET key == KeyOf(kind, id)
             r == ClientPut(st, key, entity, fail)
         IN  Done(r.err, <<>>, r.st, <<StoreCall("Put", <<key>>, <<entity>>, <<>>)>>)

CreateMulti(ctx, kind, ids, entities, st, fail) ==
    IF ~HasClient(ctx) THEN Done(ErrNotInitialized, <<>>, st, <<>>)
    ELSE IF ~entities.slice THEN Done(ErrNotSlice, <<>>, st, <<>>)
    ELSE IF FirstInvalid(ids, {"string", "int64", "nil"}) # 0
    THEN Done(ErrAt("invalid ID type at index",
                    FirstInvalid(ids, {"string", "int64", "nil"}) - 1), <<>>, st, <<>>)
    ELSE LET keys == KeysFor(kind, ids)
             r == ClientPutMulti(st, keys, entities.items, fail)
         IN  Done(r.err, <<>>, r.st, <<StoreCall("PutMulti", keys, entities.items, <<>>)>>)

\* Update keeping the fields of the stored entity that the new one lacks
UpdateMerging(ctx, kind, id, entity, st, fail) ==
    LET key == KeyOf(kind, id)
    IN  Create(ctx, kind, id, IF key \in DOMAIN st THEN entity @@ st[key] ELSE entity, st, fail)

Update(ctx, kind, id, entity, st, fail) == Create(ctx, kind, id, entity, st, fail)

UpdateMulti(ctx, kind, ids, entities, st, fail) ==
    CreateMulti(ctx, kind, ids, entities, st, fail)

Delete(ctx, kind, id, st, fail) ==
    IF ~HasClient(ctx) THEN Done(ErrNotInitialized, <<>>, st, <<>>)
    ELSE IF id.t \notin {"string", "int64"} THEN Done(ErrInvalidID, <<>>, st, <<>>)
    ELSE LET key == KeyOf(kind, id)
             r == ClientDelete(st, key, fail)
         IN  Done(r.err, <<>>, r.st, <<StoreCall("Delete", <<key>>, <<>>, <<>>)>>)

DeleteMulti(ctx, kind, ids, st, fail) ==
    IF ~HasClient(ctx) THEN Done(ErrNotInitialized, <<>>, st, <<>>)
    ELSE IF FirstInvalid(ids, {"string", "int64"}) # 0
    THEN Done(ErrAt("invalid ID type at index", FirstInvalid(ids, {"string", "int64"}) - 1),
              <<>>, st, <<>>)
    ELSE LET keys == KeysFor(kind, ids)
             r == ClientDeleteMulti(st, keys, fail)
         IN  Done(r.err, <<>>, r.st, <<StoreCall("DeleteMulti", keys, <<>>, <<>>)>>)

\* Exists reporting the not-found condition as an error
ExistsNotFoundIsError(ctx, kind, id, st, fail) ==
    LET r == GetByID(ctx, kind, id, st, fail)
    IN  IF r.err # NoErr THEN Done(r.err, <<FALSE>>, st, r.calls)
        ELSE Done(NoErr, <<TRUE>>, st, r.calls)

Exists(ctx, kind, id, st, fail) ==
    LET r == GetByID(ctx, kind, id, st, fail)
    IN  IF r.err = ErrNoSuchEntity THEN Done(NoErr, <<FALSE>>, st, r.calls)
        ELSE IF r.err # NoErr THEN Done(r.err, <<FALSE>>, st, r.calls)
        ELSE Done(NoErr, <<TRUE>>, st, r.calls)

ExecCount(ctx, kind, filters, st, fail) ==
    IF ~HasClient(ctx) THEN Done(ErrNotInitialized, <<0>>, st, <<>>)
    ELSE LET r == Count(FilterEach(Kind(New, kind), filters), st, fail)
         IN  Done(r.err, <<r.n>>, st, <<StoreCall("GetAll", <<>>, <<>>, <<r.query>>)>>)

FindAll(ctx, kind, st, fail) ==
    IF ~HasClient(ctx) THEN Done(ErrNotInitialized, <<>>, st, <<>>)
    ELSE LET query == NewQuery(kind)
             r == GetAll(query, st, fail)
         IN  Done(r.err, r.keys, st, <<StoreCall("GetAll", <<>>, <<>>, <<query>>)>>)

FindWhere(ctx, kind, filters, order, st, fail) ==
    IF ~HasClient(ctx) THEN Done(ErrNotInitialized, <<>>, st, <<>>)
    ELSE LET r == Execute(FilterEach(Kind(New, kind), FromMap(NewFilter, filters, order)),
                          st, fail)
         IN  Done(r.err, r.dest, st, <<StoreCall("GetAll", <<>>, <<>>, <<r.query>>)>>)

FindOne(ctx, kind, filters, order, st, fail) ==
    IF ~HasClient(ctx) THEN Done(ErrNotInitialized, <<>>, st, <<>>)
    ELSE LET query == Build(FilterEach(Limit(Kind(New, kind), 1),
                                       FromMap(NewFilter, filters, order)))
             it == Run(query, st)
             cs == <<StoreCall("Run", <<>>, <<>>, <<query>>)>>
         IN  IF fail THEN Done(ErrStore, <<>>, st, cs)
             ELSE IF it.err # NoErr THEN Done(it.err, <<>>, st, cs)
             ELSE IF it.items = <<>> THEN Done(IteratorDone, <<>>, st, cs)
             ELSE Done(NoErr, <<it.items[1].key>>, st, cs)

\* a variant of the builder of Paginate that clamps the offset at 0
PaginateBuilderClamped(kind, filters, order, page, pageSize) ==
    LET offset == Max((page - 1) * pageSize, 0)
    IN  FilterEach(Offset(Limit(Kind(New, kind), pageSize), offset),
                   FromMap(NewFilter, filters, order))

\* the builder Paginate executes
PaginateBuilder(kind, filters, order, page, pageSize) ==
    LET offset == (page - 1) * pageSize
    IN  FilterEach(Offset(Limit(Kind(New, kind), pageSize), offset),
                   FromMap(NewFilter, filters, order))

Paginate(ctx, kind, filters, order, page, pageSize, st, fail) ==
    IF ~HasClient(ctx) THEN Done(ErrNotInitialized, <<>>, st, <<>>)
    ELSE LET r == Execute(PaginateBuilder(kind, filters, order, page, pageSize), st, fail)
         IN  Done(r.err, r.pg, st, <<StoreCall("GetAll", <<>>, <<>>, <<r.query>>)>>)

Transaction(ctx, fnErr, st, fail) ==
    IF ~HasClient(ctx) THEN Done(ErrNotInitialized, <<>>, st, <<>>)
    ELSE Done(RunInTransaction(fnErr, fail), <<>>, st,
              <<StoreCall("RunInTransaction", <<>>, <<>>, <<>>)>>)

----------------------------------------------------------------------------
(* exec/exec.go: BulkCreate and BulkDelete, one store call per step.  bulk  *)
(* holds the locals of the call in progress.                                *)

BulkLocals(pc, ctx, kind, entities, batchSize, total, i, keys) ==
    [pc |-> pc, ctx |-> ctx, kind |-> kind, entities |-> entities,
     batchSize |-> batchSize, total |-> total, i |-> i, keys |-> keys]

\* BulkCreate up to the loop: the slice test is the only test before it
BulkCreateEnter(ctx, kind, entities, batchSize) ==
    IF ~entities.slice THEN [err |-> ErrNotSlice, bulk |-> NoBulk]
    ELSE [err |-> NoErr,
          bulk |-> BulkLocals("loop", ctx, kind, entities, batchSize,
                              Len(entities.items), 0, <<>>)]

\* a variant of the clamp that stops one item short of the end
BatchEndOffByOne(i, batchSize, total) ==
    IF i + batchSize >= total THEN total - 1 ELSE i + batchSize

BatchEnd(i, batchSize, total) ==
    IF i + batchSize > total THEN total ELSE i + batchSize

NilIDs(n) == [j \in 1..n |-> NilID]

\* a variant of the loop body that goes on to the next batch after an error
BulkCreateBatchKeepGoing(bk, st, fail) ==
    LET end == BatchEnd(bk.i, bk.batchSize, bk.total)
        batch == SliceOf(SubSeq(bk.entities.items, bk.i + 1, end))
        r == CreateMulti(bk.ctx, bk.kind, NilIDs(end - bk.i), batch, st, fail)
    IN  [err |-> NoErr, i |-> bk.i + bk.batchSize, st |-> r.st, calls |-> r.calls]

\* one iteration of the loop, entered with bk.i < bk.total; an error returns
BulkCreateBatch(bk, st, fail) ==
    LET end == BatchEnd(bk.i, bk.batchSize, bk.total)
        batch == SliceOf(SubSeq(bk.entities.items, bk.i + 1, end))
        r == CreateMulti(bk.ctx, bk.kind, NilIDs(end - bk.i), batch, st, fail)
    IN  IF r.err # NoErr
        THEN [err |-> r.err, i |-> bk.i, st |-> r.st, calls |-> r.calls]
        ELSE [err |-> NoErr, i |-> bk.i + bk.batchSize, st |-> r.st, calls |-> r.calls]

\* a variant of BulkDelete's query step that goes on to delete an empty match
BulkDeleteQueryNoEmptyTest(ctx, kind, filters, order, st, fail) ==
    IF ~HasClient(ctx)
    THEN [err |-> ErrNotInitialized, n |-> 0, calls |-> <<>>, bulk |-> NoBulk]
    ELSE LET query == Build(FilterEach(KeysOnly(Kind(New, kind)),
                                       FromMap(NewFilter, filters, order)))
             r == GetAll(query, st, fail)
             cs == <<StoreCall("GetAll", <<>>, <<>>, <<query>>)>>
         IN  IF r.err # NoErr
             THEN [err |-> r.err, n |-> 0, calls |-> cs, bulk |-> NoBulk]
             ELSE [err |-> NoErr, n |-> 0, calls |-> cs,
                   bulk |-> BulkLocals("delete", ctx, kind, NotASlice, 0, 0, 0, r.keys)]

\* BulkDelete up to the delete: the keys-only query and the two early returns
BulkDeleteQuery(ctx, kind, filters, order, st, fail) ==
    IF ~HasClient(ctx)
    THEN [err |-> ErrNotInitialized, n |-> 0, calls |-> <<>>, bulk |-> NoBulk]
    ELSE LET query == Build(FilterEach(KeysOnly(Kind(New, kind)),
                                       FromMap(NewFilter, filters, order)))
             r == GetAll(query, st, fail)
             cs == <<StoreCall("GetAll", <<>>, <<>>, <<query>>)>>
         IN  IF r.err # NoErr
             THEN [err |-> r.err, n |-> 0, calls |-> cs, bulk |-> NoBulk]
             ELSE IF Len(r.keys) = 0
             THEN [err |-> NoErr, n |-> 0, calls |-> cs, bulk |-> NoBulk]
             ELSE [err |-> NoErr, n |-> 0, calls |-> cs,
                   bulk |-> BulkLocals("delete", ctx, kind, NotASlice, 0, 0, 0, r.keys)]

\* BulkDelete's delete returning the number of entities the call removed
BulkDeleteRemoveCountsRemoved(bk, st, fail) ==
    LET r == ClientDeleteMulti(st, bk.keys, fail)
        cs == <<StoreCall("DeleteMulti", bk.keys, <<>>, <<>>)>>
    IN  IF r.err # NoErr THEN [err |-> r.err, n |-> 0, st |-> r.st, calls |-> cs]
        ELSE [err |-> NoErr, n |-> Cardinality(DOMAIN st \ DOMAIN r.st), st |-> r.st,
              calls |-> cs]

\* the rest of BulkDelete: one DeleteMulti with the keys the query returned
BulkDeleteRemove(bk, st, fail) ==
    LET r == ClientDeleteMulti(st, bk.keys, fail)
        cs == <<StoreCall("DeleteMulti", bk.keys, <<>>, <<>>)>>
    IN  IF r.err # NoErr THEN [err |-> r.err, n |-> 0, st |-> r.st, calls |-> cs]
        ELSE [err |-> NoErr, n |-> Len(bk.keys), st |-> r.st, calls |-> cs]

----------------------------------------------------------------------------
(* Executor calls, one after another, against a store they change.  ret is  *)
(* the last call: its arguments, its outcome, the store it started from     *)
(* (pre) and which of its store calls the store failed (faults).  calls is  *)
(* the log of the store calls it made.                                      *)

ExecIDs == {StringID("k1"), Int64ID(1), Int64ID(3), NilID, IntID(1)}

ExecIDLists ==
    {<<>>, <<Int64ID(1), Int64ID(2)>>, <<Int64ID(1), StringID("k1")>>,
     <<Int64ID(1), IntID(1)>>, <<NilID>>, <<Int64ID(1), NilID, IntID(1)>>}

ExecEntities == {NotASlice, SliceOf(<<>>), SliceOf(<<Entity(7)>>), SliceOf(<<Entity(7), Entity(8)>>)}

M_none == [k \in {} |-> 0]
M_st == (F_st :> 1)
M_age == ((F_age \o <<" ">> \o GreaterThanOrEqual) :> 2)
M_both == M_st @@ M_age
M_far == ((F_age \o GreaterThan) :> 9)
FilterMaps == {M_none, M_st, M_age, M_both, M_far}

BulkItems(n) == [i \in 1..n |-> Entity(10 + i)]

\* a store call can fail only if the call has a client to make it with
Fails(ctx) == IF HasClient(ctx) THEN BOOLEAN ELSE {FALSE}

ExecRet(op, ctx, args, done, err, val, pre, faults) ==
    [op |-> op, ctx |-> ctx, args |-> args, done |-> done, err |-> err, val |-> val,
     pre |-> pre, faults |-> faults]

notExec == <<b, hist, paging>>

InitExec ==
    /\ b = New
    /\ hist = NoHist
    /\ paging = NoPaging
    /\ store \in {EmptyStore, QueryStore(2)}
    /\ ret = NoRet
    /\ calls = <<>>
    /\ bulk = NoBulk
    /\ nops = 0

Ready == bulk.pc = "idle" /\ nops < MaxOps

\* a call that runs to its return in one step
Return(op, ctx, args, r, fail) ==
    /\ store' = r.st
    /\ calls' = r.calls
    /\ ret' = ExecRet(op, ctx, args, TRUE, r.err, r.val, store, <<fail>>)
    /\ nops' = nops + 1
    /\ UNCHANGED <<notExec, bulk>>

GetByIDCall ==
    /\ Ready
    /\ \E ctx \in Contexts, id \in ExecIDs : \E fail \in Fails(ctx) :
        Return("GetByID", ctx, [id |-> id], GetByID(ctx, "users", id, store, fail), fail)

GetMultiCall ==
    /\ Ready
    /\ \E ctx \in Contexts, ids \in ExecIDLists : \E fail \in Fails(ctx) :
        Return("GetMulti", ctx, [ids |-> ids], GetMulti(ctx, "users", ids, store, fail), fail)

CreateCall ==
    /\ Ready
    /\ \E ctx \in Contexts, id \in ExecIDs : \E fail \in Fails(ctx) :
        Return("Create", ctx, [id |-> id],
               Create(ctx, "users", id, Entity(7), store, fail), fail)

CreateMultiCall ==
    /\ Ready
    /\ \E ctx \in Contexts, ids \in ExecIDLists, es \in ExecEntities : \E fail \in Fails(ctx) :
        Return("CreateMulti", ctx, [ids |-> ids, entities |-> es],
               CreateMulti(ctx, "users", ids, es, store, fail), fail)

UpdateCall ==
    /\ Ready
    /\ \E ctx \in Contexts, id \in ExecIDs : \E fail \in Fails(ctx) :
        Return("Update", ctx, [id |-> id],
               Update(ctx, "users", id, Entity(8), store, fail), fail)

UpdateMultiCall ==
    /\ Ready
    /\ \E ctx \in Contexts, ids \in ExecIDLists, es \in ExecEntities : \E fail \in Fails(ctx) :
        Return("UpdateMulti", ctx, [ids |-> ids, entities |-> es],
               UpdateMulti(ctx, "users", ids, es, store, fail), fail)

DeleteCall ==
    /\ Ready
    /\ \E ctx \in Contexts, id \in ExecIDs : \E fail \in Fails(ctx) :
        Return("Delete", ctx, [id |-> id], Delete(ctx, "users", id, store, fail), fail)

DeleteMultiCall ==
    /\ Ready
    /\ \E ctx \in Contexts, ids \in ExecIDLists : \E fail \in Fails(ctx) :
        Return("DeleteMulti", ctx, [ids |-> ids],
               DeleteMulti(ctx, "users", ids, store, fail), fail)

ExistsCall ==
    /\ Ready
    /\ \E ctx \in Contexts, id \in ExecIDs : \E fail \in Fails(ctx) :
        Return("Exists", ctx, [id |-> id], Exists(ctx, "users", id, store, fail), fail)

ExecCountCall ==
    /\ Ready
    /\ \E ctx \in Contexts, f \in QueryFilters : \E fail \in Fails(ctx) :
        Return("Count", ctx, [filters |-> f], ExecCount(ctx, "users", f, store, fail), fail)

FindAllCall ==
    /\ Ready
    /\ \E ctx \in Contexts : \E fail \in Fails(ctx) :
        Return("FindAll", ctx, <<>>, FindAll(ctx, "users", store, fail), fail)

FindWhereCall ==
    /\ Ready
    /\ \E ctx \in Contexts, m \in FilterMaps : \E o \in RangeOrders(m), fail \in Fails(ctx) :
        Return("FindWhere", ctx, [filters |-> m],
               FindWhere(ctx, "users", m, o, store, fail), fail)

FindOneCall ==
    /\ Ready
    /\ \E ctx \in Contexts, m \in FilterMaps : \E o \in RangeOrders(m), fail \in Fails(ctx) :
        Return("FindOne", ctx, [filters |-> m],
               FindOne(ctx, "users", m, o, store, fail), fail)

PaginateCall ==
    /\ Ready
    /\ \E ctx \in Contexts, m \in FilterMaps, page \in -1..2, pageSize \in 0..MaxLimit :
        \E o \in RangeOrders(m), fail \in Fails(ctx) :
            Return("Paginate", ctx,
                   [filters |-> m, page |-> page, pageSize |-> pageSize,
                    builder |-> PaginateBuilder("users", m, o, page, pageSize)],
                   Paginate(ctx, "users", m, o, page, pageSize, store, fail), fail)

TransactionCall ==
    /\ Ready
    /\ \E ctx \in Contexts, fnErr \in {NoErr, Err("fn failed")} : \E fail \in Fails(ctx) :
        Return("Transaction", ctx, [fnErr |-> fnErr],
               Transaction(ctx, fnErr, store, fail), fail)

BulkCreateCall ==
    /\ Ready
    /\ \E ctx \in Contexts, batchSize \in 0..MaxBatch,
          es \in {NotASlice} \cup {SliceOf(BulkItems(n)) : n \in 0..MaxBulk} :
        LET e == BulkCreateEnter(ctx, "users", es, batchSize)
        IN  /\ bulk' = e.bulk
            /\ ret' = ExecRet("BulkCreate", ctx, [entities |-> es, batchSize |-> batchSize],
                              e.err # NoErr, e.err, <<>>, store, <<>>)
    /\ calls' = <<>>
    /\ nops' = nops + 1
    /\ UNCHANGED <<notExec, store>>

\* the loop test holds: one more batch.  A batch size of 0 never advances i,
\* so the log of such a call is followed for MaxBulk + 1 calls only.
BulkCreateBatchCall ==
    /\ bulk.pc = "loop"
    /\ bulk.i < bulk.total
    /\ Len(calls) <= MaxBulk
    /\ \E fail \in Fails(bulk.ctx) :
        LET r == BulkCreateBatch(bulk, store, fail)
        IN  /\ store' = r.st
            /\ calls' = calls \o r.calls
            /\ bulk' = IF r.err # NoErr THEN NoBulk ELSE [bulk EXCEPT !.i = r.i]
            /\ ret' = [ret EXCEPT !.done = r.err # NoErr, !.err = r.err,
                                  !.faults = Append(@, fail)]
    /\ UNCHANGED <<notExec, nops>>

\* the loop test fails: return nil
BulkCreateReturn ==
    /\ bulk.pc = "loop"
    /\ bulk.i >= bulk.total
    /\ bulk' = NoBulk
    /\ ret' = [ret EXCEPT !.done = TRUE]
    /\ UNCHANGED <<notExec, store, calls, nops>>

BulkDeleteCall ==
    /\ Ready
    /\ \E ctx \in Contexts, m \in FilterMaps : \E o \in RangeOrders(m), fail \in Fails(ctx) :
        LET r == BulkDeleteQuery(ctx, "users", m, o, store, fail)
        IN  /\ bulk' = r.bulk
            /\ calls' = r.calls
            /\ ret' = ExecRet("BulkDelete", ctx, [filters |-> m], r.bulk.pc = "idle",
                              r.err, <<r.n>>, store, <<fail>>)
    /\ nops' = nops + 1
    /\ UNCHANGED <<notExec, store>>

BulkDeleteRemoveCall ==
    /\ bulk.pc = "delete"
    /\ \E fail \in Fails(bulk.ctx) :
        LET r == BulkDeleteRemove(bulk, store, fail)
        IN  /\ store' = r.st
            /\ calls' = calls \o r.calls
            /\ ret' = [ret EXCEPT !.done = TRUE, !.err = r.err, !.val = <<r.n>>,
                                  !.faults = Append(@, fail)]
    /\ bulk' = NoBulk
    /\ UNCHANGED <<notExec, nops>>

NextExec ==
    \/ GetByIDCall
    \/ GetMultiCall
    \/ CreateCall
    \/ CreateMultiCall
    \/ UpdateCall
    \/ UpdateMultiCall
    \/ DeleteCall
    \/ DeleteMultiCall
    \/ ExistsCall
    \/ ExecCountCall
    \/ FindAllCall
    \/ FindWhereCall
    \/ FindOneCall
    \/ PaginateCall
    \/ TransactionCall
    \/ BulkCreateCall
    \/ BulkCreateBatchCall
    \/ BulkCreateReturn
    \/ BulkDeleteCall
    \/ BulkDeleteRemoveCall

SpecExec == InitExec /\ [][NextExec]_vars

----------------------------------------------------------------------------
(* Claims about the Executor (SpecExec) *)

BulkCreated == ret.op = "BulkCreate" /\ ret.done

\* the j-th of the batches of bs items that items falls into
BatchOf(items, bs, j) ==
    IF (j - 1) * bs >= Len(items) THEN <<>>
    ELSE SubSeq(items, (j - 1) * bs + 1, Min(j * bs, Len(items)))

\* the store failed the k-th store call of the last operation, and none before
FirstFault(k) ==
    /\ k \in 1..Len(ret.faults)
    /\ ret.faults[k]
    /\ \A j \in 1..(k - 1) : ~ret.faults[j]

\* C2: a BulkCreate with a client, batch size b >= 1 and n entities in which no
\* batch fails returns nil after exactly ceil(n/b) CreateMulti calls; the j-th
\* call carries items (j-1)b+1 .. min(jb, n) in input order (so the batches are
\* contiguous, disjoint, cover the input once, and only the last may be short),
\* and every item of every batch gets an incomplete (auto-generate) key.
C2_BulkCreateBatches ==
    (/\ BulkCreated
     /\ HasClient(ret.ctx)
     /\ ret.args.entities.slice
     /\ ret.args.batchSize >= 1
     /\ \A k \in 1..Len(ret.faults) : ~ret.faults[k])
    => LET items == ret.args.entities.items
           bs == ret.args.batchSize
       IN  /\ ret.err = NoErr
           /\ Len(calls) = (Len(items) + bs - 1) \div bs
           /\ \A j \in 1..Len(calls) :
                /\ calls[j].op = "PutMulti"
                /\ calls[j].entities = BatchOf(items, bs, j)
                /\ Len(calls[j].keys) = Len(calls[j].entities)
                /\ \A i \in 1..Len(calls[j].keys) :
                     calls[j].keys[i] = IncompleteKey("users")

\* five entities in batches of two: three calls of sizes 2, 2, 1
C2_Witness ==
    /\ BulkCreated
    /\ HasClient(ret.ctx)
    /\ ret.err = NoErr
    /\ ret.args.batchSize = 2
    /\ Len(ret.args.entities.items) = 5
    /\ Len(calls) = 3
    /\ Len(calls[3].entities) = 1

\* C3: when the store fails the k-th batch of a BulkCreate, the call has
\* returned that error as it is, the failed call is the last one made, and
\* every entity of batches 1..k-1 is in the store under a key it did not hold
\* before; a batch that fails for want of a client ends the call the same way.
C3_BulkCreateStopsAtFailedBatch ==
    /\ ret.op = "BulkCreate" =>
        \A k \in 1..Len(ret.faults) :
        FirstFault(k)
        => /\ ret.done
           /\ bulk.pc = "idle"
           /\ ret.err = ErrStore
           /\ Len(calls) = k
           /\ Len(ret.faults) = k
           /\ \A j \in 1..(k - 1) :
                LET batch == BatchOf(ret.args.entities.items, ret.args.batchSize, j)
                IN  \A i \in 1..Len(batch) :
                        \E key \in DOMAIN store \ DOMAIN ret.pre : store[key] = batch[i]
           /\ Cardinality(DOMAIN store) =
                Cardinality(DOMAIN ret.pre) + Min((k - 1) * ret.args.batchSize,
                                                  Len(ret.args.entities.items))
    /\ (ret.op = "BulkCreate" /\ ~HasClient(ret.ctx) /\ ret.faults # <<>>)
        => /\ ret.done
           /\ ret.err = ErrNotInitialized
           /\ Len(ret.faults) = 1
           /\ store = ret.pre

\* the second of three batches of two fails: the first two entities stay
C3_Witness ==
    /\ BulkCreated
    /\ ret.faults = <<FALSE, TRUE>>
    /\ ret.args.batchSize = 2
    /\ Len(ret.args.entities.items) = 5
    /\ ret.err = ErrStore
    /\ Cardinality(DOMAIN store) = Cardinality(DOMAIN ret.pre) + 2

\* C4: a BulkDelete with a client makes one keys-only query of the kind with
\* one filter per map entry.  If the query fails it returns (0, err) and makes
\* no other call; if nothing matches it returns (0, nil) and makes no delete
\* call; otherwise it makes exactly one DeleteMulti carrying every matched key
\* once and returns their number, or (0, err) if that call fails.
C4_BulkDelete ==
    (ret.op = "BulkDelete" /\ HasClient(ret.ctx))
    => /\ Len(calls) >= 1
       /\ calls[1].op = "GetAll"
       /\ LET q == calls[1].query[1]
              matched == Matching(q, ret.pre)
          IN  /\ q.kind = "users"
              /\ q.keysOnly
              /\ q.limit < 0 /\ q.offset = 0 /\ q.start = 0
              /\ Len(q.filter) = Cardinality(DOMAIN ret.args.filters)
              /\ IF ret.faults[1] \/ ~QueryValid(q)
                 THEN /\ ret.done /\ ret.val = <<0>> /\ ret.err # NoErr
                      /\ Len(calls) = 1 /\ store = ret.pre
                 ELSE IF matched = {}
                 THEN /\ ret.done /\ ret.val = <<0>> /\ ret.err = NoErr
                      /\ Len(calls) = 1 /\ store = ret.pre
                 ELSE IF ~ret.done
                 THEN Len(calls) = 1 /\ bulk.pc = "delete" /\ store = ret.pre
                 ELSE /\ Len(calls) = 2
                      /\ calls[2].op = "DeleteMulti"
                      /\ {calls[2].keys[i] : i \in 1..Len(calls[2].keys)} = matched
                      /\ Len(calls[2].keys) = Cardinality(matched)
                      /\ IF ret.faults[2]
                         THEN ret.val = <<0>> /\ ret.err = ErrStore /\ store = ret.pre
                         ELSE /\ ret.val = <<Cardinality(matched)>>
                              /\ ret.err = NoErr
                              /\ store = [k \in DOMAIN ret.pre \ matched |-> ret.pre[k]]

\* both users deleted by one DeleteMulti
C4_Witness ==
    /\ ret.op = "BulkDelete"
    /\ ret.done
    /\ ret.err = NoErr
    /\ ret.val = <<2>>
    /\ Len(calls) = 2
    /\ Len(calls[2].keys) = 2

\* C4, the empty match: (0, nil) after the query alone
C4_WitnessEmpty ==
    /\ ret.op = "BulkDelete"
    /\ HasClient(ret.ctx)
    /\ ret.done
    /\ ret.err = NoErr
    /\ ret.val = <<0>>
    /\ Len(calls) = 1

\* C5: every Executor operation that has returned from a call whose context
\* carries no store client returned the 'not initialized' error and made no
\* store call.
C5_NoClientIsNotInitialized ==
    (ret.op # "none" /\ ret.done /\ ~HasClient(ret.ctx))
    => ret.err = ErrNotInitialized /\ calls = <<>> /\ store = ret.pre

\* C5 for the sixteen operations that look the client up before anything else
C5_AllButBulkCreate ==
    (ret.op \notin {"none", "BulkCreate"} /\ ret.done /\ ~HasClient(ret.ctx))
    => ret.err = ErrNotInitialized /\ calls = <<>> /\ store = ret.pre

\* C18: the builder Paginate(filters, page, pageSize) executes has limit
\* pageSize and offset (page-1)*pageSize, whatever the page: 0 for page 1,
\* pageSize for page 2, and the negative -pageSize for page 0, not 0; and the
\* query the store receives is the one built from that builder.
C18_PaginateOffset ==
    (ret.op = "Paginate" /\ HasClient(ret.ctx))
    => /\ ret.args.builder.params.Limit = ret.args.pageSize
       /\ ret.args.builder.params.Offset = (ret.args.page - 1) * ret.args.pageSize
       /\ ret.args.page = 0 => ret.args.builder.params.Offset = 0 - ret.args.pageSize
       /\ ret.args.builder.kind = "users"
       /\ Len(calls) = 1
       /\ calls[1].query = <<Build(ret.args.builder)>>

\* page 0 with page size 2: offset -2
C18_Witness ==
    /\ ret.op = "Paginate"
    /\ HasClient(ret.ctx)
    /\ ret.args.page = 0
    /\ ret.args.pageSize = 2
    /\ ret.args.builder.params.Offset = -2
    /\ ret.args.builder.params.Limit = 2

\* C25: Build puts an offset or a limit into the query only when it is above
\* zero, so Paginate with a page of 0 or less and a page size above 0 sends
\* the store the query of page 1 (limit pageSize, no offset) and returns what
\* page 1 returns: the first pageSize results and no error when the store
\* runs the query.
C25_PageBelowOneIsPageOne ==
    (ret.op = "Paginate" /\ HasClient(ret.ctx))
    => LET first == [ret.args.builder EXCEPT !.params.Offset = 0]
           query == calls[1].query[1]
           all == Matching(query, ret.pre)
       IN  /\ query.limit = IF ret.args.pageSize > 0 THEN ret.args.pageSize ELSE -1
           /\ query.offset = IF ret.args.page > 1 /\ ret.args.pageSize > 0
                             THEN (ret.args.page - 1) * ret.args.pageSize ELSE 0
           /\ (ret.args.page <= 0 /\ ret.args.pageSize > 0)
               => /\ query = Build(first)
                  /\ ret.err = Execute(first, ret.pre, ret.faults[1]).err
                  /\ ret.val = Execute(first, ret.pre, ret.faults[1]).pg
                  /\ (~ret.faults[1] /\ QueryValid(query))
                      => /\ ret.err = NoErr
                         /\ ret.val[1].Total = Min(ret.args.pageSize, Cardinality(all))

\* page -1 with page size 2 on a store of two users: both are returned
C25_Witness ==
    /\ ret.op = "Paginate"
    /\ HasClient(ret.ctx)
    /\ ret.args.page = -1
    /\ ret.args.pageSize = 2
    /\ ret.args.builder.params.Offset = -4
    /\ calls[1].query[1].offset = 0
    /\ ret.err = NoErr
    /\ ret.val[1].Total = 2

\* C26: in a BulkCreate with a client, whatever the slice and the batch size
\* from 0 up, every loop iteration that goes on to another one has advanced
\* the batch start index, so the loop ends after finitely many CreateMulti
\* calls.
C26_EachBatchAdvances ==
    [][(bulk.pc = "loop" /\ HasClient(bulk.ctx) /\ bulk'.pc = "loop") => bulk'.i > bulk.i]_vars

\* the same for the batch sizes from 1 up: the index grows by the batch size,
\* and when no further iteration is possible the call is at its return
C26_PositiveBatchAdvances ==
    [][(/\ bulk.pc = "loop"
        /\ HasClient(bulk.ctx)
        /\ bulk.batchSize >= 1
        /\ bulk'.pc = "loop")
       => bulk'.i = bulk.i + bulk.batchSize]_vars

\* an id that is neither a string nor an int64
BadID(id) == id.t \notin {"string", "int64"}

\* C19: with a client, GetByID and Delete given an id that is neither a string
\* nor an int64 (an absent one included) return the type error and make no
\* store call; GetMulti and DeleteMulti given a sequence holding such an id
\* return the type error with the index of the first such element and make no
\* store call, so the store is as it was.
C19_InvalidIDIsRejected ==
    /\ (ret.op \in {"GetByID", "Delete"} /\ HasClient(ret.ctx) /\ BadID(ret.args.id))
        => ret.err = ErrInvalidID /\ calls = <<>> /\ store = ret.pre
    /\ (ret.op \in {"GetMulti", "DeleteMulti"} /\ HasClient(ret.ctx))
        => \A i \in 1..Len(ret.args.ids) :
              (BadID(ret.args.ids[i]) /\ \A j \in 1..(i - 1) : ~BadID(ret.args.ids[j]))
              => /\ ret.err = ErrAt("invalid ID type at index", i - 1)
                 /\ calls = <<>>
                 /\ store = ret.pre

\* DeleteMulti of an existing id followed by two invalid ones: index 1 is
\* reported and the existing entity stays
C19_Witness ==
    /\ ret.op = "DeleteMulti"
    /\ HasClient(ret.ctx)
    /\ ret.args.ids = <<Int64ID(1), NilID, IntID(1)>>
    /\ ret.err = ErrAt("invalid ID type at index", 1)
    /\ IDKey("users", 1) \in DOMAIN store

\* C20: an absent id is accepted on the create path only: Update and
\* UpdateMulti given one return the type error and write nothing, as GetByID
\* and Delete do, while Create and CreateMulti store the entity under a new key.
C20_AbsentIDOnlyOnCreate ==
    /\ (ret.op \in {"Update", "GetByID", "Delete"} /\ HasClient(ret.ctx) /\ ret.args.id = NilID)
        => ret.err = ErrInvalidID /\ calls = <<>> /\ store = ret.pre
    /\ (/\ ret.op = "UpdateMulti"
        /\ HasClient(ret.ctx)
        /\ ret.args.entities.slice
        /\ \E i \in 1..Len(ret.args.ids) : ret.args.ids[i] = NilID)
        => ret.err.msg = "invalid ID type at index" /\ calls = <<>> /\ store = ret.pre
    /\ (ret.op = "Create" /\ HasClient(ret.ctx) /\ ret.args.id = NilID /\ ret.faults = <<FALSE>>)
        => /\ ret.err = NoErr
           /\ \E key \in DOMAIN store \ DOMAIN ret.pre :
                /\ ~Incomplete(key)
                /\ store = (key :> Entity(7)) @@ ret.pre

\* C20 without Update and UpdateMulti
C20_CreateGetDelete ==
    /\ (ret.op \in {"GetByID", "Delete"} /\ HasClient(ret.ctx) /\ ret.args.id = NilID)
        => ret.err = ErrInvalidID /\ calls = <<>> /\ store = ret.pre
    /\ (ret.op = "Create" /\ HasClient(ret.ctx) /\ ret.args.id = NilID /\ ret.faults = <<FALSE>>)
        => /\ ret.err = NoErr
           /\ \E key \in DOMAIN store \ DOMAIN ret.pre :
                /\ ~Incomplete(key)
                /\ store = (key :> Entity(7)) @@ ret.pre

\* C21: Exists returns (true, nil) exactly when GetByID of the same id on the
\* same store succeeds, (false, nil) exactly when GetByID reports the store's
\* not-found condition, and (false, err) with GetByID's error on every other
\* failure: no client, an id of the wrong type, a failed store call.  The
\* store is as it was before the call.
C21_ExistsFollowsGetByID ==
    ret.op = "Exists" =>
        LET g == GetByID(ret.ctx, "users", ret.args.id, ret.pre, ret.faults[1])
            key == KeyOf("users", ret.args.id)
        IN  /\ store = ret.pre
            /\ (ret.val = <<TRUE>> /\ ret.err = NoErr) <=> g.err = NoErr
            /\ (ret.val = <<FALSE>> /\ ret.err = NoErr) <=> g.err = ErrNoSuchEntity
            /\ g.err \notin {NoErr, ErrNoSuchEntity}
                => ret.val = <<FALSE>> /\ ret.err = g.err
            /\ ~HasClient(ret.ctx) => ret.val = <<FALSE>> /\ ret.err = ErrNotInitialized
            /\ (HasClient(ret.ctx) /\ BadID(ret.args.id))
                => ret.val = <<FALSE>> /\ ret.err = ErrInvalidID
            /\ (HasClient(ret.ctx) /\ ~BadID(ret.args.id) /\ ret.faults[1])
                => ret.val = <<FALSE>> /\ ret.err = ErrStore
            /\ (HasClient(ret.ctx) /\ ~BadID(ret.args.id) /\ ~ret.faults[1])
                => ret.val = <<key \in DOMAIN ret.pre>> /\ ret.err = NoErr

\* Exists of an id that a store holding other entities does not hold
C21_Witness ==
    /\ ret.op = "Exists"
    /\ HasClient(ret.ctx)
    /\ ret.args.id = Int64ID(3)
    /\ ret.faults = <<FALSE>>
    /\ ret.pre = QueryStore(2)
    /\ ret.val = <<FALSE>>
    /\ ret.err = NoErr
    /\ calls = <<StoreCall("Get", <<IDKey("users", 3)>>, <<>>, <<>>)>>

----------------------------------------------------------------------------
(* Sequences of Create, Update and Delete on one kind: at most MaxCrud     *)
(* calls, each on one of CrudIDs, the store failing any of them.  hist     *)
(* holds, per id, what the latest successful call on it wrote (nothing     *)
(* after a Delete), and the store the sequence started from.               *)

CrudIDs == {StringID("k1"), Int64ID(1), Int64ID(3)}

\* entities with different sets of fields
CrudEntities == {Entity(7), (F_age :> 8)}

CrudKeys == {KeyOf("users", id) : id \in CrudIDs}

Held(st, id) ==
    IF KeyOf("users", id) \in DOMAIN st THEN <<st[KeyOf("users", id)]>> ELSE <<>>

InitCrud ==
    /\ b = New
    /\ paging = NoPaging
    /\ store \in {EmptyStore, QueryStore(2)}
    /\ hist = [expect |-> [id \in CrudIDs |-> Held(store, id)], init |-> store]
    /\ ret = NoRet
    /\ calls = <<>>
    /\ bulk = NoBulk
    /\ nops = 0

CrudReturn(op, id, entity, r, fail, written) ==
    /\ store' = r.st
    /\ calls' = Append(calls, r.calls[1])
    /\ ret' = ExecRet(op, "client", [id |-> id, entity |-> entity], TRUE, r.err, r.val,
                      store, <<fail>>)
    /\ hist' = IF r.err = NoErr THEN [hist EXCEPT !.expect[id] = written] ELSE hist
    /\ nops' = nops + 1
    /\ UNCHANGED <<b, paging, bulk>>

CrudCreate ==
    /\ nops < MaxCrud
    /\ \E id \in CrudIDs, entity \in CrudEntities, fail \in BOOLEAN :
        CrudReturn("Create", id, <<entity>>,
                   Create("client", "users", id, entity, store, fail), fail, <<entity>>)

CrudUpdate ==
    /\ nops < MaxCrud
    /\ \E id \in CrudIDs, entity \in CrudEntities, fail \in BOOLEAN :
        CrudReturn("Update", id, <<entity>>,
                   Update("client", "users", id, entity, store, fail), fail, <<entity>>)

CrudDelete ==
    /\ nops < MaxCrud
    /\ \E id \in CrudIDs, fail \in BOOLEAN :
        CrudReturn("Delete", id, <<>>, Delete("client", "users", id, store, fail), fail, <<>>)

NextCrud == CrudCreate \/ CrudUpdate \/ CrudDelete

SpecCrud == InitCrud /\ [][NextCrud]_vars

\* C22: after any sequence of Create, Update and Delete calls on one kind the
\* store holds, for each id, exactly the entity that the latest successful
\* Create or Update on it was given, with no field of an earlier entity left,
\* when no successful Delete followed, and nothing when one did; entities
\* under other keys are as they were.  A Delete of an id the store does not
\* hold returns no error and leaves the store as it was, and a second Delete
\* of the same id changes nothing more.
C22_LastWriteIsStored ==
    /\ \A id \in CrudIDs : Held(store, id) = hist.expect[id]
    /\ \A k \in (DOMAIN store \cup DOMAIN hist.init) \ CrudKeys :
          k \in DOMAIN store /\ k \in DOMAIN hist.init /\ store[k] = hist.init[k]
    /\ (/\ ret.op = "Delete"
        /\ ret.faults = <<FALSE>>
        /\ KeyOf("users", ret.args.id) \notin DOMAIN ret.pre)
        => ret.err = NoErr /\ store = ret.pre
    /\ (ret.op = "Delete" /\ ret.err = NoErr)
        => LET again == Delete("client", "users", ret.args.id, store, FALSE)
           IN  again.err = NoErr /\ again.st = store

\* an Update with an entity of fewer fields over a created one, and a Delete
\* of an id that an earlier Delete removed
C22_Witness ==
    /\ ret.op = "Delete"
    /\ ret.err = NoErr
    /\ ret.args.id = Int64ID(3)
    /\ KeyOf("users", Int64ID(3)) \notin DOMAIN ret.pre
    /\ Len(calls) = 3
    /\ calls[1].op = "Put" /\ calls[1].entities = <<Entity(7)>>
    /\ calls[2].op = "Put" /\ calls[2].entities = <<(F_age :> 8)>>
    /\ calls[1].keys = calls[2].keys
    /\ Held(store, StringID("k1")) = <<(F_age :> 8)>>
    /\ IDKey("posts", 1) \in DOMAIN store

----------------------------------------------------------------------------
(* Two callers at once on one store.  Each runs one program; a store call  *)
(* is one step, and the steps of the two callers interleave in every       *)
(* order.  bulk holds each caller's position and locals, ret each caller's *)
(* outcome, calls the store calls in the order they reached the store and  *)
(* hist the caller of each.                                                *)

Callers == {1, 2}

Program(op, id, field, reads, entity, filters) ==
    [op |-> op, id |-> id, field |-> field, reads |-> reads, entity |-> entity,
     filters |-> filters]

\* Update of users/1 setting one field, on the entity read just before or on a
\* new one; Create of an entity under a held or a free id; Delete; BulkDelete
RacePrograms ==
    {Program("Update", Int64ID(1), f, r, <<>>, M_none) : f \in {F_age, F_st}, r \in BOOLEAN}
    \cup {Program("Create", id, <<>>, FALSE, <<Entity(3)>>, M_none) :
            id \in {Int64ID(1), Int64ID(3)}}
    \cup {Program("Delete", Int64ID(1), <<>>, FALSE, <<>>, M_none)}
    \cup {Program("BulkDelete", NilID, <<>>, FALSE, <<>>, m) : m \in {M_none, M_st}}

RaceLocals(pc, prog, read, wrote, bk, seen, pre) ==
    [pc |-> pc, prog |-> prog, read |-> read, wrote |-> wrote, bk |-> bk, seen |-> seen,
     pre |-> pre]

RaceRet(done, err, val) == [done |-> done, err |-> err, val |-> val]

notRace == <<b, paging, nops>>

InitRace ==
    /\ b = New
    /\ paging = NoPaging
    /\ store = QueryStore(2)
    /\ hist = <<>>
    /\ ret = [c \in Callers |-> RaceRet(FALSE, NoErr, <<>>)]
    /\ calls = <<>>
    /\ bulk \in [Callers -> {RaceLocals("start", p, <<>>, <<>>, NoBulk, EmptyStore, EmptyStore) :
                              p \in RacePrograms}]
    /\ nops = 0

\* the caller's step made the store calls cs and left the caller at locals
RaceStep(c, locals, st, cs, r) ==
    /\ bulk' = [bulk EXCEPT ![c] = locals]
    /\ store' = st
    /\ calls' = calls \o cs
    /\ hist' = hist \o [i \in 1..Len(cs) |-> c]
    /\ ret' = [ret EXCEPT ![c] = r]
    /\ UNCHANGED notRace

\* the caller reads the entity it is about to update
RaceRead(c) ==
    /\ bulk[c].pc = "start"
    /\ bulk[c].prog.op = "Update"
    /\ bulk[c].prog.reads
    /\ LET r == GetByID("client", "users", bulk[c].prog.id, store, FALSE)
       IN  RaceStep(c, [bulk[c] EXCEPT !.pc = "put", !.read = r.val], r.st, r.calls, ret[c])

\* the entity the caller hands to Update: the one it read with its field set,
\* or a new one holding that field alone
RaceEntity(locals) ==
    IF locals.read # <<>> THEN [locals.read[1] EXCEPT ![locals.prog.field] = 9]
    ELSE (locals.prog.field :> 9)

RaceUpdate(c) ==
    /\ bulk[c].prog.op = "Update"
    /\ bulk[c].pc = "put" \/ (bulk[c].pc = "start" /\ ~bulk[c].prog.reads)
    /\ LET entity == RaceEntity(bulk[c])
           r == Update("client", "users", bulk[c].prog.id, entity, store, FALSE)
       IN  RaceStep(c, [bulk[c] EXCEPT !.pc = "done", !.wrote = <<entity>>], r.st, r.calls,
                    RaceRet(TRUE, r.err, r.val))

RaceCreate(c) ==
    /\ bulk[c].prog.op = "Create"
    /\ bulk[c].pc = "start"
    /\ LET r == Create("client", "users", bulk[c].prog.id, bulk[c].prog.entity[1], store, FALSE)
       IN  RaceStep(c, [bulk[c] EXCEPT !.pc = "done", !.wrote = bulk[c].prog.entity],
                    r.st, r.calls, RaceRet(TRUE, r.err, r.val))

RaceDelete(c) ==
    /\ bulk[c].prog.op = "Delete"
    /\ bulk[c].pc = "start"
    /\ LET r == Delete("client", "users", bulk[c].prog.id, store, FALSE)
       IN  RaceStep(c, [bulk[c] EXCEPT !.pc = "done"], r.st, r.calls,
                    RaceRet(TRUE, r.err, r.val))

\* BulkDelete up to the return of its query
RaceBulkDeleteQuery(c) ==
    /\ bulk[c].prog.op = "BulkDelete"
    /\ bulk[c].pc = "start"
    /\ \E o \in RangeOrders(bulk[c].prog.filters) :
        LET r == BulkDeleteQuery("client", "users", bulk[c].prog.filters, o, store, FALSE)
        IN  RaceStep(c, [bulk[c] EXCEPT !.pc = IF r.bulk.pc = "idle" THEN "done" ELSE "delete",
                                       !.bk = r.bulk, !.seen = store],
                     store, r.calls, RaceRet(r.bulk.pc = "idle", r.err, <<r.n>>))

\* the rest of BulkDelete
RaceBulkDeleteRemove(c) ==
    /\ bulk[c].pc = "delete"
    /\ LET r == BulkDeleteRemove(bulk[c].bk, store, FALSE)
       IN  RaceStep(c, [bulk[c] EXCEPT !.pc = "done", !.pre = store], r.st, r.calls,
                    RaceRet(TRUE, r.err, <<r.n>>))

NextRace ==
    \E c \in Callers :
        \/ RaceRead(c)
        \/ RaceUpdate(c)
        \/ RaceCreate(c)
        \/ RaceDelete(c)
        \/ RaceBulkDeleteQuery(c)
        \/ RaceBulkDeleteRemove(c)

SpecRace == InitRace /\ [][NextRace]_vars

\* the position in calls of the store call op of caller c (0 when there is none)
CallOf(c, op) ==
    IF \E i \in DOMAIN calls : hist[i] = c /\ calls[i].op = op
    THEN CHOOSE i \in DOMAIN calls : hist[i] = c /\ calls[i].op = op
    ELSE 0

\* C23: two callers updating the same id at once, each with or without reading
\* the entity first, both return without error, and the store then holds
\* exactly the entity of the caller whose put reached the store later; the
\* field the other caller set is not in it unless the later caller read the
\* entity after the other's put.
C23_ConcurrentUpdatesLastPutWins ==
    \A w \in Callers : \A l \in Callers \ {w} :
        (/\ bulk[w].prog.op = "Update" /\ bulk[w].pc = "done"
         /\ bulk[l].prog.op = "Update" /\ bulk[l].pc = "done")
        => LET key == KeyOf("users", bulk[w].prog.id)
           IN  /\ ret[w] = RaceRet(TRUE, NoErr, <<>>)
               /\ CallOf(w, "Put") # 0
               /\ CallOf(l, "Put") < CallOf(w, "Put")
                   => /\ key \in DOMAIN store
                      /\ store[key] = bulk[w].wrote[1]
                      /\ (/\ bulk[l].prog.field # bulk[w].prog.field
                          /\ CallOf(w, "Get") < CallOf(l, "Put"))
                          => \/ bulk[l].prog.field \notin DOMAIN store[key]
                             \/ store[key][bulk[l].prog.field] # 9

\* both callers read users/1, then caller 1 puts its entity with age set and
\* caller 2 its entity with st set: the stored entity has the old age
C23_Witness ==
    /\ \A c \in Callers : bulk[c].prog.op = "Update" /\ bulk[c].prog.reads /\ ret[c].done
    /\ bulk[1].prog.field = F_age
    /\ bulk[2].prog.field = F_st
    /\ hist = <<1, 2, 1, 2>>
    /\ store[IDKey("users", 1)] = [Entity(1) EXCEPT ![F_st] = 9]

\* caller w's single store call came after caller a's query and before a's
\* DeleteMulti
Between(a, w, op) ==
    /\ CallOf(a, "GetAll") # 0
    /\ CallOf(a, "GetAll") < CallOf(w, op)
    /\ CallOf(w, op) < CallOf(a, "DeleteMulti")

\* C27: BulkDelete's query and its DeleteMulti are two store calls with
\* nothing holding the store between them.  An entity matching the filters
\* that another caller creates under a new key after the query and before the
\* DeleteMulti is in the store when BulkDelete has returned; and the count
\* BulkDelete returns is the number of keys its query matched, also when
\* another caller deleted one of them before the DeleteMulti, which then
\* removed fewer entities than the count says.
C27_BulkDeleteIsNotAtomic ==
    \A a \in Callers : \A w \in Callers \ {a} :
        (bulk[a].prog.op = "BulkDelete" /\ bulk[a].pc = "done" /\ CallOf(a, "DeleteMulti") # 0)
        => LET query == calls[CallOf(a, "GetAll")].query[1]
               matched == Matching(query, bulk[a].seen)
               key == KeyOf("users", bulk[w].prog.id)
           IN  /\ ret[a] = RaceRet(TRUE, NoErr, <<Cardinality(matched)>>)
               /\ (/\ bulk[w].prog.op = "Create"
                   /\ Between(a, w, "Put")
                   /\ key \notin DOMAIN bulk[a].seen
                   /\ key \in Matching(query, (key :> bulk[w].wrote[1])))
                   => key \in DOMAIN store /\ store[key] = bulk[w].wrote[1]
               /\ (/\ bulk[w].prog.op = "Delete"
                   /\ Between(a, w, "Delete")
                   /\ key \in matched)
                   => /\ Cardinality(DOMAIN bulk[a].pre \ DOMAIN store) < ret[a].val[1]
                      /\ matched \cap DOMAIN store = {}

\* BulkDelete of the users with st 1 matches users/1; users/3 with st 1 is
\* created before the DeleteMulti and stays
C27_Witness ==
    /\ bulk[1].prog = Program("BulkDelete", NilID, <<>>, FALSE, <<>>, M_st)
    /\ bulk[2].prog = Program("Create", Int64ID(3), <<>>, FALSE, <<Entity(3)>>, M_none)
    /\ hist = <<1, 2, 1>>
    /\ ret[1] = RaceRet(TRUE, NoErr, <<1>>)
    /\ DOMAIN store = {IDKey("users", 2), IDKey("users", 3), IDKey("posts", 1)}

\* users/1 is deleted by the other caller before the DeleteMulti, and
\* BulkDelete still returns 2
C27_WitnessDeleted ==
    /\ bulk[1].prog = Program("BulkDelete", NilID, <<>>, FALSE, <<>>, M_none)
    /\ bulk[2].prog.op = "Delete"
    /\ hist = <<1, 2, 1>>
    /\ ret[1] = RaceRet(TRUE, NoErr, <<2>>)
    /\ DOMAIN bulk[1].pre \ DOMAIN store = {IDKey("users", 2)}

----------------------------------------------------------------------------
(* Filter construction on its own: one call of WhereIn, FromMap or          *)
(* FromStruct on fresh input.  ret holds the input and what came out.       *)

ValueLists == UNION {[1..n -> {0, 1}] : n \in 0..MaxValues}

InitNormalize ==
    /\ b = New
    /\ hist = NoHist
    /\ paging = NoPaging
    /\ store = QueryStore(MaxEntities)
    /\ ret = NoRet
    /\ calls = <<>>
    /\ bulk = NoBulk
    /\ nops = 0

notNormalize == <<hist, paging, store, calls, bulk, nops>>

\* WhereIn on a builder of the kind, then the query it builds run on the store
WhereInQuery ==
    /\ ret.op = "none"
    /\ \E values \in ValueLists,
          before \in {Kind(New, "users"),
                      Filter(Kind(New, "users"), F_age, GreaterThanOrEqual, 2)} :
        LET bd == WhereIn(before, F_st, values)
            r == Execute(bd, store, FALSE)
        IN  /\ b' = bd
            /\ ret' = [op |-> "WhereIn", before |-> before, values |-> values,
                       err |-> r.err, dest |-> r.dest]
    /\ UNCHANGED notNormalize

Tokens == {Equal, LessThan, LessThanOrEqual, GreaterThan, GreaterThanOrEqual, NotEqual}

Pads == {<<>>, <<" ">>}

\* a map key as its writer means it: a field, an operator token (or none) and
\* optional blanks around them
KeySpecs ==
    {[pre |-> <<>>, field |-> f, mid |-> <<>>, tok |-> <<>>, post |-> <<>>] : f \in {F_age, F_st}}
    \cup {[pre |-> pre, field |-> F_age, mid |-> mid, tok |-> tok, post |-> post] :
            pre \in Pads, mid \in Pads, post \in Pads, tok \in Tokens}

KeyText(ks) == ks.pre \o ks.field \o ks.mid \o ks.tok \o ks.post

\* one key, or the key "st" and one other key; every value is 18
KeySpecSets ==
    {{ks} : ks \in KeySpecs}
    \cup {{ks, [pre |-> <<>>, field |-> F_st, mid |-> <<>>, tok |-> <<>>, post |-> <<>>]} :
            ks \in {k \in KeySpecs : k.field = F_age}}

MapOf(kss) == [key \in {KeyText(ks) : ks \in kss} |-> 18]

\* what the writer of each key means by it
IntentOf(kss) ==
    [key \in {KeyText(ks) : ks \in kss} |->
        LET ks == CHOOSE k \in kss : KeyText(k) = key
        IN  [field |-> ks.field, op |-> IF ks.tok = <<>> THEN Equal ELSE ks.tok]]

FromMapCall ==
    /\ ret.op = "none"
    /\ \E kss \in KeySpecSets : \E order \in RangeOrders(MapOf(kss)) :
        ret' = [op |-> "FromMap", m |-> MapOf(kss), intent |-> IntentOf(kss),
                order |-> order, out |-> FromMap(NewFilter, MapOf(kss), order)]
    /\ UNCHANGED <<b, notNormalize>>

\* C13: FromMap emits, for each key in the order the map is ranged over, a
\* condition with the key's value, the operator token the key contains ('=' if
\* it contains none) and as field the text before the token without
\* surrounding blanks.
C13_FromMapParsesTokens ==
    ret.op = "FromMap" =>
        /\ Len(ret.out) = Len(ret.order)
        /\ \A i \in 1..Len(ret.out) :
            ret.out[i] = FilterParam(ret.intent[ret.order[i]].field,
                                     ret.intent[ret.order[i]].op,
                                     ret.m[ret.order[i]])

\* C13 for the keys that do not hold the token '='
C13_AllButEqualToken ==
    (ret.op = "FromMap" /\ \A key \in DOMAIN ret.m : Index(key, Equal) = 0
                                                      \/ ret.intent[key].op # Equal)
    => /\ Len(ret.out) = Len(ret.order)
       /\ \A i \in 1..Len(ret.out) :
            ret.out[i] = FilterParam(ret.intent[ret.order[i]].field,
                                     ret.intent[ret.order[i]].op,
                                     ret.m[ret.order[i]])

----------------------------------------------------------------------------
(* builder/filter.go: FromStruct and isZeroValue.  A Go value is its kind,  *)
(* its length (strings, slices, maps, arrays), and whether it is the zero   *)
(* value of its type; a struct is the list of its fields, each with its     *)
(* name, its datastore and json tag values and its value.                   *)

GoValue(kind, len, zero) == [kind |-> kind, len |-> len, zero |-> zero]

isZeroValue(v) ==
    CASE v.kind \in {"array", "map", "slice", "string"} -> v.len = 0
      [] v.kind = "bool" -> v.zero
      [] v.kind \in {"int", "int8", "int16", "int32", "int64"} -> v.zero
      [] v.kind \in {"uint", "uint8", "uint16", "uint32", "uint64"} -> v.zero
      [] v.kind \in {"float32", "float64"} -> v.zero
      [] v.kind \in {"interface", "ptr"} -> v.zero
      [] v.kind = "time" -> v.zero
      [] v.kind = "struct" -> FALSE
      [] OTHER -> FALSE

UpperCase == <<"A", "B", "C", "D", "E", "F", "G", "H", "I", "J", "K", "L", "M",
               "N", "O", "P", "Q", "R", "S", "T", "U", "V", "W", "X", "Y", "Z">>
LowerCase == <<"a", "b", "c", "d", "e", "f", "g", "h", "i", "j", "k", "l", "m",
               "n", "o", "p", "q", "r", "s", "t", "u", "v", "w", "x", "y", "z">>

ToLower(str) ==
    [i \in 1..Len(str) |->
        IF \E j \in 1..Len(UpperCase) : UpperCase[j] = str[i]
        THEN LowerCase[CHOOSE j \in 1..Len(UpperCase) : UpperCase[j] = str[i]]
        ELSE str[i]]

\* the filter field of a struct field: datastore tag, else json tag, else the
\* lowered name; then the part before the first comma
FieldName(fd) ==
    LET tag1 == fd.datastore
        tag2 == IF tag1 = <<>> \/ tag1 = <<"-">> THEN fd.json ELSE tag1
        tag3 == IF tag2 = <<>> \/ tag2 = <<"-">> THEN ToLower(fd.name) ELSE tag2
    IN  SplitFirst(tag3, <<",">>)

RECURSIVE FromStructFields(_, _, _)
FromStructFields(filters, fields, i) ==
    IF i > Len(fields) THEN filters
    ELSE IF isZeroValue(fields[i].value) THEN FromStructFields(filters, fields, i + 1)
    ELSE FromStructFields(Append(filters, FilterParam(FieldName(fields[i]), Equal,
                                                      fields[i].value)),
                          fields, i + 1)

\* s.struct: s is a struct or a non-nil pointer to one
FromStruct(filters, s) ==
    IF ~s.struct THEN filters ELSE FromStructFields(filters, s.fields, 1)

StructOf(fields) == [struct |-> TRUE, fields |-> fields]
NotAStruct == [struct |-> FALSE, fields |-> <<>>]

Field(name, ds, json, value) == [name |-> name, datastore |-> ds, json |-> json, value |-> value]

\* fields of a tagged record, each with its zero value and a non-zero one
StructFields ==
    {Field(<<"I", "D">>, <<"-">>, <<>>, v) : v \in {GoValue("string", 0, TRUE), GoValue("string", 3, FALSE)}}
    \cup {Field(<<"N", "a", "m", "e">>, F_name, <<>>, v) :
            v \in {GoValue("string", 0, TRUE), GoValue("string", 4, FALSE)}}
    \cup {Field(<<"A", "g", "e">>, F_age, <<>>, v) :
            v \in {GoValue("int", 0, TRUE), GoValue("int", 0, FALSE)}}
    \cup {Field(<<"A", "c", "t", "i", "v", "e">>, <<>>, <<>>, v) :
            v \in {GoValue("bool", 0, TRUE), GoValue("bool", 0, FALSE)}}
    \cup {Field(<<"T", "a", "g", "s">>, <<"t", "a", "g", "s", ",", "n", "o", "i", "n", "d", "e", "x">>, <<>>, v) :
            v \in {GoValue("slice", 0, TRUE), GoValue("slice", 0, FALSE), GoValue("slice", 2, FALSE)}}
    \cup {Field(<<"O", "w", "n", "e", "r">>, <<>>, <<"o", "w", "n", "e", "r">>, v) :
            v \in {GoValue("ptr", 0, TRUE), GoValue("ptr", 0, FALSE)}}
    \cup {Field(<<"C", "r", "e", "a", "t", "e", "d", "A", "t">>, <<"c", "r", "e", "a", "t", "e", "d", "_", "a", "t">>, <<>>, v) :
            v \in {GoValue("time", 0, TRUE), GoValue("time", 0, FALSE)}}
    \cup {Field(<<"S", "c", "o", "r", "e">>, <<>>, <<>>, v) :
            v \in {GoValue("float64", 0, TRUE), GoValue("float64", 0, FALSE)}}
    \cup {Field(<<"A", "d", "d", "r">>, <<>>, <<>>, v) :
            v \in {GoValue("struct", 0, TRUE), GoValue("struct", 0, FALSE)}}
    \cup {Field(<<"G", "r", "i", "d">>, <<>>, <<>>, v) :
            v \in {GoValue("array", 2, TRUE), GoValue("array", 2, FALSE)}}
    \cup {Field(<<"Z">>, <<>>, <<>>, v) :
            v \in {GoValue("complex128", 0, TRUE), GoValue("complex128", 0, FALSE)}}

\* records of one or two fields, and an argument that is no record
Structs ==
    {NotAStruct}
    \cup {StructOf(<<fd>>) : fd \in StructFields}
    \cup {StructOf(<<p[1], p[2]>>) :
            p \in {q \in StructFields \X StructFields : q[1].name # q[2].name}}

FromStructCall ==
    /\ ret.op = "none"
    /\ \E s \in Structs : ret' = [op |-> "FromStruct", s |-> s, out |-> FromStruct(NewFilter, s)]
    /\ UNCHANGED <<b, notNormalize>>

\* the zero or empty value of its type
ZeroOrEmpty(v) == v.zero \/ (v.kind \in {"array", "map", "slice", "string"} /\ v.len = 0)

NonZeroFields(s) == SelectSeq(s.fields, LAMBDA fd : ~ZeroOrEmpty(fd.value))

\* C14: FromStruct emits one equality condition, carrying the field's value,
\* for each field whose value is not the zero or empty value of its type, in
\* declaration order, and none for a field that holds it.
C14_FromStructSkipsZeroFields ==
    ret.op = "FromStruct" =>
        /\ Len(ret.out) = Len(NonZeroFields(ret.s))
        /\ \A i \in 1..Len(ret.out) :
            /\ ret.out[i].Operator = Equal
            /\ ret.out[i].Value = NonZeroFields(ret.s)[i].value

\* C14 for records whose fields are strings, integers, floats, booleans,
\* slices, pointers and dates
C14_ListedKinds ==
    (/\ ret.op = "FromStruct"
     /\ \A i \in 1..Len(ret.s.fields) :
            ret.s.fields[i].value.kind \in
                {"string", "int", "float64", "bool", "slice", "ptr", "time"})
    => /\ Len(ret.out) = Len(NonZeroFields(ret.s))
       /\ \A i \in 1..Len(ret.out) :
            /\ ret.out[i].Operator = Equal
            /\ ret.out[i].Value = NonZeroFields(ret.s)[i].value
            /\ ret.out[i].Field \in {<<"i", "d">>, F_name, F_age, <<"a", "c", "t", "i", "v", "e">>,
                                     <<"t", "a", "g", "s">>, <<"o", "w", "n", "e", "r">>,
                                     <<"c", "r", "e", "a", "t", "e", "d", "_", "a", "t">>,
                                     <<"s", "c", "o", "r", "e">>}

\* cursor strings with the position they stand for: tokens the store issued,
\* and strings that are no token (position 0)
CursorTexts ==
    {[s |-> CursorString(n), pos |-> n] : n \in 1..MaxEntities}
    \cup {[s |-> g, pos |-> 0] : g \in {<<"x">>, <<"C">>, <<"C", "x">>, <<"1">>, <<"c", "1">>}}

\* Build on a builder given the cursor string, Build on the same builder
\* without it, and decodeCursor of the string
BuildCursorCall ==
    /\ ret.op = "none"
    /\ \E c \in CursorTexts,
          base \in {Kind(New, "users"),
                    Limit(OrderAsc(Filter(Kind(New, "users"), F_st, Equal, 1), F_age), 1)} :
        /\ b' = Cursor(base, c.s)
        /\ ret' = [op |-> "BuildCursor", base |-> base, cursor |-> c,
                   built |-> Build(Cursor(base, c.s)), plain |-> Build(base),
                   decoded |-> decodeCursor(c.s)]
    /\ UNCHANGED notNormalize

\* C24: Build on a builder whose cursor string cannot be decoded returns the
\* query it returns with no cursor set, with no start cursor in it, while
\* decodeCursor of that string returns an error; a string that decodes puts
\* its cursor into the query and decodeCursor returns it with no error.
C24_CursorDecodeSoftInBuild ==
    ret.op = "BuildCursor" =>
        /\ ret.cursor.pos = 0
            => /\ ret.built = ret.plain
               /\ ret.built.start = 0
               /\ ret.decoded.err # NoErr
        /\ ret.cursor.pos > 0
            => /\ ret.decoded = [err |-> NoErr, cursor |-> ret.cursor.pos]
               /\ ret.built = [ret.plain EXCEPT !.start = ret.cursor.pos]

\* a builder with a filter, an order, a limit and a cursor string that is no
\* token
C24_Witness ==
    /\ ret.op = "BuildCursor"
    /\ ret.cursor = [s |-> <<"x">>, pos |-> 0]
    /\ b.params.Cursor = <<"x">>
    /\ ret.built.limit = 1
    /\ Len(ret.built.filter) = 1
    /\ ret.built.start = 0
    /\ ret.decoded.err = ErrDecode

\* the conditions a filter builder holds before FromMap: none, or the one of
\* an earlier Equal("name", 1)
PriorFilters == {NewFilter, <<FilterParam(F_name, Equal, 1)>>}

\* two calls of FromMap with the same map, each on a filter builder holding
\* prior; the range loop of each visits the keys in an order of its own
FromMapTwiceCall ==
    /\ ret.op = "none"
    /\ \E kss \in KeySpecSets, prior \in PriorFilters :
        \E o1 \in RangeOrders(MapOf(kss)), o2 \in RangeOrders(MapOf(kss)) :
            ret' = [op |-> "FromMapTwice", m |-> MapOf(kss), prior |-> prior,
                    orders |-> <<o1, o2>>,
                    first |-> FromMap(prior, MapOf(kss), o1),
                    second |-> FromMap(prior, MapOf(kss), o2)]
    /\ UNCHANGED <<b, notNormalize>>

\* the conditions of out after the first n
Appended(out, n) == SubSeq(out, n + 1, Len(out))

Range(s) == {s[i] : i \in DOMAIN s}

\* C29: FromMap leaves the conditions the filter builder already holds as
\* they are and in place, and appends after them exactly one condition per
\* key of the map.  The set of appended conditions does not depend on the
\* order in which the map is ranged over, but their sequence follows that
\* order, so two calls with the same map give different sequences when the
\* range loop visits the keys differently.
C29_FromMapAppendsOnePerKey ==
    ret.op = "FromMapTwice" =>
        LET n == Len(ret.prior)
            keys == DOMAIN ret.m
            each == {FromMapEntry(k, ret.m[k]) : k \in keys}
        IN  /\ \A out \in {ret.first, ret.second} :
                /\ Len(out) = n + Cardinality(keys)
                /\ SubSeq(out, 1, n) = ret.prior
                /\ Range(Appended(out, n)) = each
                /\ \A i \in 1..Cardinality(keys) :
                     \A v \in {ret.m[k] : k \in keys} : out[n + i].Value = v
            /\ Range(Appended(ret.first, n)) = Range(Appended(ret.second, n))
            /\ \A i \in 1..Cardinality(keys) :
                 /\ ret.first[n + i] = FromMapEntry(ret.orders[1][i], ret.m[ret.orders[1][i]])
                 /\ ret.second[n + i] = FromMapEntry(ret.orders[2][i], ret.m[ret.orders[2][i]])
            /\ (ret.orders[1] # ret.orders[2] /\ Cardinality(each) = Cardinality(keys))
                => ret.first # ret.second

\* a map of two keys ranged over in the two orders, on a filter builder that
\* holds a condition: the same two conditions appended, in different orders
C29_Witness ==
    /\ ret.op = "FromMapTwice"
    /\ ret.prior = <<FilterParam(F_name, Equal, 1)>>
    /\ Cardinality(DOMAIN ret.m) = 2
    /\ ret.orders[1] # ret.orders[2]
    /\ Len(ret.first) = 3
    /\ ret.first[1] = ret.second[1]
    /\ ret.first[2] = ret.second[3]
    /\ ret.first[3] = ret.second[2]
    /\ ret.first[2] # ret.first[3]

NextNormalize ==
    \/ WhereInQuery
    \/ FromMapCall
    \/ FromStructCall
    \/ BuildCursorCall
    \/ FromMapTwiceCall

SpecNormalize == InitNormalize /\ [][NextNormalize]_vars

----------------------------------------------------------------------------
(* repository/repository.go: Query, QueryTyped and Count.  The params       *)
(* argument is an any: p.t is its dynamic type and p.v the value.  A value  *)
(* of a map[string]interface{} is an int or a string.                       *)

IntValue(n) == [t |-> "int", n |-> n, s |-> <<>>]
StringValue(str) == [t |-> "string", n |-> 0, s |-> str]

\* the Go value inside the interface
Interface(value) == IF value.t = "int" THEN value.n ELSE value.s

K_limit == <<"l", "i", "m", "i", "t">>
K_offset == <<"o", "f", "f", "s", "e", "t">>
K_cursor == <<"c", "u", "r", "s", "o", "r">>
K_order_by == <<"o", "r", "d", "e", "r", "_", "b", "y">>

applyMapEntry(bd, key, value) ==
    CASE key = K_limit -> IF value.t = "int" THEN Limit(bd, value.n) ELSE bd
      [] key = K_offset -> IF value.t = "int" THEN Offset(bd, value.n) ELSE bd
      [] key = K_cursor -> IF value.t = "string" THEN Cursor(bd, value.s) ELSE bd
      [] key = K_order_by -> IF value.t = "string" THEN OrderAsc(bd, value.s) ELSE bd
      [] OTHER -> Where(bd, key, Interface(value))

RECURSIVE applyMapParams(_, _, _)
applyMapParams(bd, params, order) ==
    IF order = <<>> THEN bd
    ELSE applyMapParams(applyMapEntry(bd, Head(order), params[Head(order)]), params,
                        Tail(order))

applyStructParams(bd, params) == FilterEach(bd, FromStruct(NewFilter, params))

\* a QueryParams seen as the struct it is: its fields in declaration order,
\* none of them tagged
QueryParamsStruct(qp) ==
    StructOf(<<
        Field(<<"F", "i", "l", "t", "e", "r", "s">>, <<>>, <<>>,
              GoValue("slice", Len(qp.Filters), qp.Filters = <<>>)),
        Field(<<"O", "r", "d", "e", "r", "s">>, <<>>, <<>>,
              GoValue("slice", Len(qp.Orders), qp.Orders = <<>>)),
        Field(<<"L", "i", "m", "i", "t">>, <<>>, <<>>, GoValue("int", 0, qp.Limit = 0)),
        Field(<<"O", "f", "f", "s", "e", "t">>, <<>>, <<>>, GoValue("int", 0, qp.Offset = 0)),
        Field(<<"C", "u", "r", "s", "o", "r">>, <<>>, <<>>,
              GoValue("string", Len(qp.Cursor), qp.Cursor = <<>>)),
        Field(<<"S", "e", "l", "e", "c", "t">>, <<>>, <<>>,
              GoValue("slice", Len(qp.Select), qp.Select = <<>>)),
        Field(<<"D", "i", "s", "t", "i", "n", "c", "t">>, <<>>, <<>>,
              GoValue("bool", 0, ~qp.Distinct)),
        Field(<<"K", "e", "y", "s", "O", "n", "l", "y">>, <<>>, <<>>,
              GoValue("bool", 0, ~qp.KeysOnly)),
        Field(<<"A", "n", "c", "e", "s", "t", "o", "r">>, <<>>, <<>>,
              GoValue("ptr", 0, qp.Ancestor = <<>>)),
        Field(<<"T", "r", "a", "n", "s", "a", "c", "t", "i", "o", "n">>, <<>>, <<>>,
              GoValue("bool", 0, ~qp.Transaction))>>)

\* what reflect sees of an argument that is not a map
Reflected(p) ==
    CASE p.t \in {"QueryParams", "*QueryParams"} -> QueryParamsStruct(p.v)
      [] p.t = "struct" -> p.v
      [] OTHER -> NotAStruct

MapValues(m) == [key \in DOMAIN m |-> Interface(m[key])]

\* the type switch of Query and QueryTyped; order is the range order of a map
ApplyParams(bd, p, order) ==
    CASE p.t \in {"QueryParams", "*QueryParams"} -> applyQueryParams(bd, p.v)
      [] p.t = "map" -> applyMapParams(bd, p.v, order)
      [] OTHER -> applyStructParams(bd, Reflected(p))

QueryTyped(kind, p, order, st, fail) ==
    LET bd == ApplyParams(Kind(New, kind), p, order)
        r == Execute(bd, st, fail)
    IN  [builder |-> bd, query |-> r.query, err |-> r.err, pg |-> r.pg, out |-> r.dest]

Query(kind, p, order, st, fail) ==
    LET bd == ApplyParams(Kind(New, kind), p, order)
        r == Execute(bd, st, fail)
    IN  IF r.err # NoErr
        THEN [builder |-> bd, query |-> r.query, err |-> r.err, pg |-> <<>>, out |-> <<>>]
        ELSE [builder |-> bd, query |-> r.query, err |-> NoErr, pg |-> r.pg, out |-> r.dest]

\* the type switch of Count
CountFilters(p, order) ==
    CASE p.t = "map" -> FromMap(NewFilter, MapValues(p.v), order)
      [] p.t = "[]FilterParam" -> p.v
      [] OTHER -> FromStruct(NewFilter, Reflected(p))

RepositoryCount(kind, p, order, st, fail) ==
    LET bd == FilterEach(Kind(New, kind), CountFilters(p, order))
        r == Count(bd, st, fail)
    IN  [builder |-> bd, query |-> r.query, err |-> r.err, pg |-> <<>>, out |-> <<r.n>>]

----------------------------------------------------------------------------
(* One repository query or count on the kind "users" of a store that holds  *)
(* MaxEntities users.  ret holds the argument, the builder the call made    *)
(* from it, the native query it ran and what it returned.                   *)

Reserved == {K_limit, K_offset, K_cursor, K_order_by}

RepoQueryParams ==
    {[QueryParams EXCEPT !.Filters = f, !.Orders = o, !.Limit = l] :
        f \in QueryFilters, o \in QueryOrders, l \in {0, 1}}

MapEntries ==
    {<<K_limit, IntValue(1)>>, <<K_limit, StringValue(<<"1">>)>>,
     <<K_offset, IntValue(1)>>,
     <<K_cursor, StringValue(CursorString(1))>>, <<K_cursor, IntValue(1)>>,
     <<K_order_by, StringValue(F_age)>>,
     <<F_st, IntValue(1)>>,
     <<F_age \o GreaterThanOrEqual, IntValue(2)>>,
     <<F_age \o <<" ">> \o LessThan, IntValue(3)>>}

\* maps of one or two of the entries
RepoMaps ==
    {(e[1] :> e[2]) : e \in MapEntries}
    \cup {(p[1][1] :> p[1][2]) @@ (p[2][1] :> p[2][2]) :
            p \in {q \in MapEntries \X MapEntries : q[1][1] # q[2][1]}}

RepoStructs ==
    {NotAStruct} \cup
    {StructOf(<<Field(<<"S", "c", "o", "r", "e">>, <<>>, <<>>, v)>>) :
        v \in {GoValue("float64", 0, TRUE), GoValue("float64", 0, FALSE)}}

Param(t, v) == [t |-> t, v |-> v]

RepoParams ==
    {Param(t, qp) : t \in {"QueryParams", "*QueryParams"}, qp \in RepoQueryParams}
    \cup {Param("map", m) : m \in RepoMaps}
    \cup {Param("struct", st) : st \in RepoStructs}
    \cup {Param("[]FilterParam", f) : f \in QueryFilters}

\* the orders in which the call may range over its argument, if it is a map
ParamOrders(p) == IF p.t = "map" THEN RangeOrders(p.v) ELSE {<<>>}

InitRepo ==
    /\ b = New
    /\ hist = NoHist
    /\ paging = NoPaging
    /\ store = QueryStore(MaxEntities)
    /\ ret = NoRet
    /\ calls = <<>>
    /\ bulk = NoBulk
    /\ nops = 0

RepoRet(op, p, order, r) ==
    [op |-> op, params |-> p, order |-> order, builder |-> r.builder, query |-> r.query,
     err |-> r.err, pg |-> r.pg, out |-> r.out]

QueryCall ==
    /\ ret.op = "none"
    /\ \E p \in RepoParams, fail \in BOOLEAN : \E order \in ParamOrders(p) :
        ret' = RepoRet("Query", p, order, Query("users", p, order, store, fail))
    /\ UNCHANGED <<b, hist, paging, store, calls, bulk, nops>>

QueryTypedCall ==
    /\ ret.op = "none"
    /\ \E p \in RepoParams, fail \in BOOLEAN : \E order \in ParamOrders(p) :
        ret' = RepoRet("QueryTyped", p, order, QueryTyped("users", p, order, store, fail))
    /\ UNCHANGED <<b, hist, paging, store, calls, bulk, nops>>

RepositoryCountCall ==
    /\ ret.op = "none"
    /\ \E p \in RepoParams, fail \in BOOLEAN : \E order \in ParamOrders(p) :
        ret' = RepoRet("Count", p, order, RepositoryCount("users", p, order, store, fail))
    /\ UNCHANGED <<b, hist, paging, store, calls, bulk, nops>>

NextRepo ==
    \/ QueryCall
    \/ QueryTypedCall
    \/ RepositoryCountCall

SpecRepo == InitRepo /\ [][NextRepo]_vars

----------------------------------------------------------------------------
(* Claims about the repository (SpecRepo) *)

FilterSet(bd) == {bd.params.Filters[i] : i \in 1..Len(bd.params.Filters)}

\* C15: Query and QueryTyped given a map turn every non-reserved key into the
\* filter the Filter Normalizer's map form makes of it: the operator token in
\* the key is the operator, the trimmed text before it the field, and a key
\* without a token is an equality.
C15_MapOperatorTokens ==
    (ret.op \in {"Query", "QueryTyped"} /\ ret.params.t = "map")
    => /\ FilterSet(ret.builder) =
            {FromMapEntry(key, Interface(ret.params.v[key])) :
                key \in DOMAIN ret.params.v \ Reserved}
       /\ (F_age \o GreaterThanOrEqual) \in DOMAIN ret.params.v
            => FilterParam(F_age, GreaterThanOrEqual, 2) \in FilterSet(ret.builder)

\* C15 for the keys that hold no operator token
C15_PlainKeys ==
    (/\ ret.op \in {"Query", "QueryTyped"}
     /\ ret.params.t = "map"
     /\ DOMAIN ret.params.v \subseteq Reserved \cup {F_st})
    => FilterSet(ret.builder) =
            {FilterParam(key, Equal, Interface(ret.params.v[key])) :
                key \in DOMAIN ret.params.v \ Reserved}

\* the pagination and ordering the reserved keys of map m ask for
ReservedApplied(bd, m) ==
    /\ bd.params.Limit =
          IF K_limit \in DOMAIN m /\ m[K_limit].t = "int" THEN m[K_limit].n ELSE 0
    /\ bd.params.Offset =
          IF K_offset \in DOMAIN m /\ m[K_offset].t = "int" THEN m[K_offset].n ELSE 0
    /\ bd.params.Cursor =
          IF K_cursor \in DOMAIN m /\ m[K_cursor].t = "string" THEN m[K_cursor].s ELSE <<>>
    /\ bd.params.Orders =
          IF K_order_by \in DOMAIN m /\ m[K_order_by].t = "string"
          THEN <<OrderParam(m[K_order_by].s, Ascending)>> ELSE <<>>

\* C16: in the map given to Query, QueryTyped or Count no reserved key becomes
\* a filter: the filters are one per other key, and limit, offset, cursor and
\* order_by set the limit, the offset, the cursor and one ascending order.
C16_ReservedKeysNeverFilter ==
    (ret.op \in {"Query", "QueryTyped", "Count"} /\ ret.params.t = "map")
    => /\ \A f \in FilterSet(ret.builder) : f.Field \notin Reserved
       /\ Len(ret.builder.params.Filters) = Cardinality(DOMAIN ret.params.v \ Reserved)
       /\ ReservedApplied(ret.builder, ret.params.v)

\* C16 for Query and QueryTyped
C16_QueryAndQueryTyped ==
    (ret.op \in {"Query", "QueryTyped"} /\ ret.params.t = "map")
    => /\ \A f \in FilterSet(ret.builder) : f.Field \notin Reserved
       /\ Len(ret.builder.params.Filters) = Cardinality(DOMAIN ret.params.v \ Reserved)
       /\ ReservedApplied(ret.builder, ret.params.v)

\* the users of the store that meet every one of the filters
Meeting(filters) ==
    LET r == Execute(FilterEach(Kind(New, "users"), filters), store, FALSE)
    IN  {r.dest[i] : i \in 1..Len(r.dest)}

\* C17: Count given a QueryParams, by value or by reference, counts with the
\* filters of that QueryParams, the ones Query and QueryTyped apply for it.
C17_CountUsesParamsFilters ==
    (ret.op = "Count" /\ ret.params.t \in {"QueryParams", "*QueryParams"})
    => /\ ret.builder.params.Filters = ret.params.v.Filters
       /\ ret.err = NoErr => ret.out = <<Cardinality(Meeting(ret.params.v.Filters))>>

\* Query and QueryTyped do apply the filters of a QueryParams
C17_QueryUsesParamsFilters ==
    (ret.op \in {"Query", "QueryTyped"} /\ ret.params.t \in {"QueryParams", "*QueryParams"})
    => /\ ret.builder.params.Filters = ret.params.v.Filters
       /\ (ret.err = NoErr /\ ret.params.v.Limit = 0)
            => {ret.out[i] : i \in 1..Len(ret.out)} = Meeting(ret.params.v.Filters)

====
